---------------------------- MODULE Spec2Model ----------------------------
(***************************************************************************)
(* A model of the double dynamic-programming core of cath-tools (SSAP):    *)
(* the entry_querier helpers, the driver in uni/ssap/ssap.cpp and the      *)
(* alignment_refiner.                                                      *)
(*                                                                         *)
(* The module holds several specifications over one set of variables:      *)
(*   SpecFn      pure functions applied to inputs drawn from bounded sets  *)
(*   SpecSsap    run_ssap: one pairwise comparison, from reset to output   *)
(*   SpecRepeat  SpecSsap and a second align_proteins without a reset      *)
(*   SpecAlign   the DP alignments of compare and compare_upper_cell       *)
(*   SpecSelect  select_pairs and populate_upper_score_matrix              *)
(*   SpecRefiner alignment_refiner::iterate; SpecRefinerFair: it keeps     *)
(*               running while it can                                      *)
(* Each specification leaves the variables of the others at their idle     *)
(* values.                                                                 *)
(***************************************************************************)
EXTENDS Integers, Sequences, FiniteSets, TLC

VARIABLES
    \* -- SpecFn
    call,                   \* the pure function last applied: its name, arguments and result
    \* -- SpecSsap: the file-scope globals of uni/ssap/ssap.cpp
    global_window,
    global_window_add,
    global_res_sim_cutoff,
    global_run_counter,
    global_gap_penalty,
    global_align_pass,
    global_doing_fast_ssap,
    global_res_score,
    global_score_run1,
    global_score_run2,
    global_ssap_score1,
    global_ssap_score2,
    global_ssap_line1,
    global_ssap_line2,
    \* -- SpecSsap: the position in run_ssap / align_proteins / fast_ssap and their locals
    pc,                     \* the statement reached
    fast_call,              \* which of align_proteins' three fast_ssap calls is running (0: none)
    first_score,            \* align_proteins' first_score
    fast_ssap_scores,       \* align_proteins' fast_ssap_scores
    new_ssap_scores,        \* fast_ssap's new_ssap_scores
    proteins,               \* the pair of proteins read
    options,                \* the old_ssap_options_block
    dp_outcome,             \* what each compare() computed, by the parameters it read
    scores_stream,          \* the lines written to the scores stream
    compare_log,            \* the compare() calls made by the current align_proteins
    comparison,             \* how many times align_proteins has been entered
    first_result,           \* what the first align_proteins left behind
    \* -- SpecRefiner: alignment_refiner::iterate, its arguments and locals
    rpc,                    \* the statement of iterate reached
    arg_alignment,          \* the alignment to refine
    arg_proteins,           \* the protein list (its size)
    step_outcome,           \* what re-aligning a split makes of each alignment
    iter_ctr,
    prev_alignment,
    curr_alignment,
    inserted_residues,
    next_matches_prev,
    new_alignments,         \* whether a step has built a new alignment
    returned_alignment,     \* the alignment iterate returned
    split_call,             \* a call of iterate_step_for_alignment_split and its outcome
    last_steps,             \* the last two steps of iterate: what each was given and gave
    \* -- SpecSelect: select_pairs and populate_upper_score_matrix of one compare()
    spc,                    \* the statement of compare() reached
    select_call,            \* what the compare() was called with and the globals it read
    cell_ctr,               \* select_pairs' place in its loop over the cells of the window
    selected_pairs,         \* select_pairs' selected_pairs
    offered,                \* the pairs handed to update_best_pair_selections so far
    select_counts,          \* num_entries_selected and total_num_entries_considered
    select_writes,          \* the mask cells select_pairs has written
    global_lower_mask_matrix,      \* the cells (b, a) that are true
    global_upper_ss_mask_matrix,   \* likewise
    global_upper_res_mask_matrix,  \* likewise, a being the index in the window
    global_selections,
    global_num_selections,
    global_frac_selected,   \* a double, as numerator and denominator
    ctr_b__offset_1,        \* populate_upper_score_matrix's row
    upper_cell_calls,       \* the (a, b) compare_upper_cell was called with, in order
    normalisation,          \* populate_upper_score_matrix's normaliser: frac_selected * sqrt( radicand )
    \* -- SpecSkip: resolve_hits/options/spec/should_skip_query.hpp
    filter_pc,              \* "options" until the filter spec is known, then "queries"
    arg_filter_spec,        \* the crh_filter_spec: the query IDs to keep and the limit of queries
    arg_seen_queries,       \* the query_id_recorder
    skip_calls              \* the should_skip_query_and_update calls made, in order

fnVars == <<call>>

ssapGlobals ==
    <<global_window, global_window_add, global_res_sim_cutoff,
      global_run_counter, global_gap_penalty, global_align_pass, global_doing_fast_ssap,
      global_res_score, global_score_run1, global_score_run2, global_ssap_score1,
      global_ssap_score2, global_ssap_line1, global_ssap_line2>>

ssapLocals ==
    <<pc, fast_call, first_score, fast_ssap_scores, new_ssap_scores, proteins, options,
      dp_outcome, scores_stream, compare_log, comparison, first_result>>

ssapVars == <<ssapGlobals, ssapLocals>>

refinerVars ==
    <<rpc, arg_alignment, arg_proteins, step_outcome, iter_ctr, prev_alignment,
      curr_alignment, inserted_residues, next_matches_prev, new_alignments,
      returned_alignment, split_call, last_steps>>

selectVars ==
    <<spc, select_call, cell_ctr, selected_pairs, offered, select_counts, select_writes,
      global_lower_mask_matrix, global_upper_ss_mask_matrix, global_upper_res_mask_matrix,
      global_selections, global_num_selections, global_frac_selected, ctr_b__offset_1,
      upper_cell_calls, normalisation>>

skipVars == <<filter_pc, arg_filter_spec, arg_seen_queries, skip_calls>>

vars == <<fnVars, ssapVars, refinerVars, selectVars, skipVars>>

\* The variables a specification leaves alone
otherThanFn      == <<ssapVars, refinerVars, selectVars, skipVars>>
otherThanSsap    == <<fnVars, refinerVars, selectVars, skipVars>>
otherThanRefiner == <<fnVars, ssapVars, selectVars, skipVars>>
otherThanSelect  == <<fnVars, ssapVars, refinerVars, skipVars>>
otherThanSkip    == <<fnVars, ssapVars, refinerVars, selectVars>>

(***************************************************************************)
(* Bounds of the model.                                                    *)
(***************************************************************************)
MaxExcluded == 10   \* largest exclusion radius tried
MaxLength   == 20   \* largest structure length tried
MaxIndex    == 12   \* largest index handed to pair_is_not_excluded
MaxLevel    == 2    \* SSAP scores are drawn from the levels 0..MaxLevel
MaxProteinLength == 3   \* largest number of residues of a protein
MaxAlignedLength == 7   \* longest structure of a scored alignment
MaxDpLength  == 3   \* longest structure handed to the DP aligner
MaxHalfDegrees == 2  \* largest phi or psi angle, in half degrees
MaxSelectLength == 2 \* longest structure handed to select_pairs
MaxCellScore == 1    \* largest score of a cell of the upper score matrix
MaxEntries   == 3   \* most entries of an alignment handed to the refiner
MaxAlignment == 3   \* number of distinct alignments of the same entries
MaxIterCtr   == 4   \* iter_ctr, which is only logged, stops counting here
MaxCliqueSize == 3  \* most correspondences a clique file declares or holds
MaxQueryIds  == 3   \* number of distinct query IDs
MaxLimitQueries == 2 \* largest limit of queries
MaxQueries   == 3   \* most should_skip_query_and_update calls made

(***************************************************************************)
(* size_t arithmetic.  Every value the model computes is far below 2^64,   *)
(* so the only way a size_t expression can wrap is a subtraction whose     *)
(* mathematical result is negative.  A size_t is modelled as its value     *)
(* and a flag telling whether the computation that produced it wrapped.    *)
(***************************************************************************)
SizeT(v) == [value |-> v, wrapped |-> FALSE]

SizeWrapped == [value |-> 0, wrapped |-> TRUE]

size_sub(x, y) ==
    IF x.wrapped \/ y.wrapped \/ x.value < y.value
    THEN SizeWrapped
    ELSE SizeT(x.value - y.value)

size_add(x, y) ==
    IF x.wrapped \/ y.wrapped THEN SizeWrapped ELSE SizeT(x.value + y.value)

size_mul(x, y) ==
    IF x.wrapped \/ y.wrapped THEN SizeWrapped ELSE SizeT(x.value * y.value)

Max(a, b) == IF a >= b THEN a ELSE b
Min(a, b) == IF a <= b THEN a ELSE b

Abs(x) == IF x >= 0 THEN x ELSE -x

(***************************************************************************)
(* entry_querier.cpp                                                       *)
(***************************************************************************)
Queriers == {"residue", "sec_struc"}

RESIDUE_NUM_EXCLUDED_ON_SIDES   == 5
SEC_STRUC_NUM_EXCLUDED_ON_SIDES == 0

num_excluded_on_either_size(querier) ==
    IF querier = "residue" THEN RESIDUE_NUM_EXCLUDED_ON_SIDES
                           ELSE SEC_STRUC_NUM_EXCLUDED_ON_SIDES

\* A slip in the comparison: >= where the code has >
pair_is_not_excluded_ge(num_excluded, prm_index1, prm_index2) ==
    LET max_index == Max(prm_index1, prm_index2)
        min_index == Min(prm_index1, prm_index2)
        abs_index_diff == size_sub(SizeT(max_index), SizeT(min_index))
    IN  [value |-> abs_index_diff.value >= num_excluded,
         wrapped |-> abs_index_diff.wrapped]

pair_is_not_excluded(num_excluded, prm_index1, prm_index2) ==
    LET max_index == Max(prm_index1, prm_index2)
        min_index == Min(prm_index1, prm_index2)
        abs_index_diff == size_sub(SizeT(max_index), SizeT(min_index))
    IN  [value |-> abs_index_diff.value > num_excluded,
         wrapped |-> abs_index_diff.wrapped]

pair_is_not_excluded_querier(querier, prm_index1, prm_index2) ==
    pair_is_not_excluded(num_excluded_on_either_size(querier), prm_index1, prm_index2)

\* A slip: the guard against too-short lengths left out
_num_comparable_impl_unguarded(prm_num_excluded, prm_length) ==
    size_mul(size_sub(SizeT(prm_length), SizeT(prm_num_excluded)),
             size_sub(size_sub(SizeT(prm_length), SizeT(prm_num_excluded)), SizeT(1)))

_num_comparable_impl(prm_num_excluded, prm_length) ==
    IF prm_length <= size_add(SizeT(prm_num_excluded), SizeT(1)).value
    THEN SizeT(0)
    ELSE size_mul(size_sub(SizeT(prm_length), SizeT(prm_num_excluded)),
                  size_sub(size_sub(SizeT(prm_length), SizeT(prm_num_excluded)), SizeT(1)))

num_comparable(querier, prm_length) ==
    _num_comparable_impl(num_excluded_on_either_size(querier), prm_length)

(***************************************************************************)
(* SpecFn: the pure functions, each applied to every input of its bounded  *)
(* input set.                                                              *)
(***************************************************************************)
NoCall == [fn |-> "none"]

CallNumComparableImpl ==
    /\ call = NoCall
    /\ UNCHANGED otherThanFn
    /\    \E n \in 0..MaxExcluded, len \in 0..MaxLength :
        call' = [fn |-> "_num_comparable_impl", num_excluded |-> n, length |-> len,
                 result |-> _num_comparable_impl(n, len)]

CallNumComparable ==
    /\ call = NoCall
    /\ UNCHANGED otherThanFn
    /\    \E q \in Queriers, len \in 0..MaxLength :
        call' = [fn |-> "num_comparable", querier |-> q, length |-> len,
                 result |-> num_comparable(q, len)]

CallPairIsNotExcluded ==
    /\ call = NoCall
    /\ UNCHANGED otherThanFn
    /\    \E n \in 0..MaxExcluded, i \in 0..MaxIndex, j \in 0..MaxIndex :
        call' = [fn |-> "pair_is_not_excluded", num_excluded |-> n,
                 index1 |-> i, index2 |-> j,
                 result  |-> pair_is_not_excluded(n, i, j),
                 swapped |-> pair_is_not_excluded(n, j, i)]

CallPairIsNotExcludedQuerier ==
    /\ call = NoCall
    /\ UNCHANGED otherThanFn
    /\    \E q \in Queriers, i \in 0..MaxIndex, j \in 0..MaxIndex :
        call' = [fn |-> "pair_is_not_excluded_querier", querier |-> q,
                 index1 |-> i, index2 |-> j,
                 result  |-> pair_is_not_excluded_querier(q, i, j),
                 swapped |-> pair_is_not_excluded_querier(q, j, i)]

(***************************************************************************)
(* uni/ssap/ssap.cpp: calculate_log_score, the count of compared pairs.    *)
(*                                                                         *)
(* An alignment of two structures is a sequence of columns; a column holds *)
(* for each structure a position (1-based) or 0 for no position.           *)
(***************************************************************************)
has_both_positions_of_index(aln, index) == aln[index].a /= 0 /\ aln[index].b /= 0

RECURSIVE alignment_from(_, _, _, _, _, _)
\* The alignment of structures of lengths length_a and length_b, from the
\* positions posn_a and posn_b on, that pairs the positions of a_posns with
\* those of b_posns in order and gives every other position a column of
\* its own
alignment_from(posn_a, posn_b, length_a, length_b, a_posns, b_posns) ==
    IF posn_a > length_a /\ posn_b > length_b THEN << >>
    ELSE IF posn_a <= length_a /\ posn_a \notin a_posns
    THEN <<[a |-> posn_a, b |-> 0]>>
         \o alignment_from(posn_a + 1, posn_b, length_a, length_b, a_posns, b_posns)
    ELSE IF posn_b <= length_b /\ posn_b \notin b_posns
    THEN <<[a |-> 0, b |-> posn_b]>>
         \o alignment_from(posn_a, posn_b + 1, length_a, length_b, a_posns, b_posns)
    ELSE <<[a |-> posn_a, b |-> posn_b]>>
         \o alignment_from(posn_a + 1, posn_b + 1, length_a, length_b, a_posns, b_posns)

\* are_comparable__offset_1 of residue_querier and of sec_struc_querier
are_comparable__offset_1(querier, i_posn_a, i_posn_b, j_posn_a, j_posn_b) ==
    IF querier = "residue"
    THEN /\ pair_is_not_excluded(RESIDUE_NUM_EXCLUDED_ON_SIDES, i_posn_a, j_posn_a).value
         /\ pair_is_not_excluded(RESIDUE_NUM_EXCLUDED_ON_SIDES, i_posn_b, j_posn_b).value
    ELSE TRUE

\* count after the first loop nest of calculate_log_score: one ++count for
\* every pair of columns (i, j) that both have both positions and are
\* comparable
calculate_log_score_count(querier, aln) ==
    Cardinality({ ij \in (1..Len(aln)) \X (1..Len(aln)) :
                    /\ has_both_positions_of_index(aln, ij[1])
                    /\ has_both_positions_of_index(aln, ij[2])
                    /\ are_comparable__offset_1(querier, aln[ij[1]].a, aln[ij[1]].b,
                                                aln[ij[2]].a, aln[ij[2]].b) })

\* final_score_matrix after the first loop nest, at the cells of the columns
\* with both positions: distance_score__offset_1 (here the same for every
\* pair) once for every column that is comparable with the cell's
final_score_matrix(querier, aln, distance_score) ==
    [cell \in {<<aln[j].b, aln[j].a>> : j \in {k \in 1..Len(aln) : has_both_positions_of_index(aln, k)}} |->
        distance_score * Cardinality({i \in 1..Len(aln) :
                                        /\ has_both_positions_of_index(aln, i)
                                        /\ are_comparable__offset_1(querier, aln[i].a, aln[i].b,
                                                                    cell[2], cell[1])})]

\* A slip: the first column with both positions is charged as well
gap_of_column_first_too(is_first_with_both_posns, prev_had_both_posns, a_position, b_position, prev_a_position, prev_b_position, gap_penalty) ==
    IF \/ ~prev_had_both_posns
       \/ a_position /= prev_a_position + 1
       \/ b_position /= prev_b_position + 1
    THEN gap_penalty
    ELSE 0

\* gap of a column with both positions in the second loop of
\* calculate_log_score
gap_of_column(is_first_with_both_posns, prev_had_both_posns, a_position, b_position, prev_a_position, prev_b_position, gap_penalty) ==
    IF ~is_first_with_both_posns
    THEN IF \/ ~prev_had_both_posns
            \/ a_position /= prev_a_position + 1
            \/ b_position /= prev_b_position + 1
         THEN gap_penalty
         ELSE 0
    ELSE 0

RECURSIVE accumulate_along_final_path(_, _, _, _, _)
\* The second loop of calculate_log_score from column alignment_ctr on;
\* path holds the loop's variables
accumulate_along_final_path(aln, alignment_ctr, scores, gap_penalty, path) ==
    IF alignment_ctr > Len(aln) THEN path
    ELSE LET has_both_posns == has_both_positions_of_index(aln, alignment_ctr)
             a_position == aln[alignment_ctr].a
             b_position == aln[alignment_ctr].b
             gap == gap_of_column(path.is_first_with_both_posns, path.prev_had_both_posns,
                                  a_position, b_position,
                                  path.prev_a_position, path.prev_b_position, gap_penalty)
         IN  accumulate_along_final_path(aln, alignment_ctr + 1, scores, gap_penalty,
                 IF has_both_posns
                 THEN [prev_had_both_posns |-> TRUE, is_first_with_both_posns |-> FALSE,
                       prev_a_position |-> a_position, prev_b_position |-> b_position,
                       num_aligned_pairs |-> path.num_aligned_pairs + 1,
                       maxscore |-> path.maxscore + scores[<<b_position, a_position>>] - gap]
                 ELSE [path EXCEPT !.prev_had_both_posns = FALSE])

\* maxscore of calculate_log_score once it is kept from going below 0
calculate_log_score_maxscore(aln, scores, gap_penalty) ==
    Max(0, accumulate_along_final_path(aln, 1, scores, gap_penalty,
               [prev_had_both_posns |-> FALSE, is_first_with_both_posns |-> TRUE,
                prev_a_position |-> 0, prev_b_position |-> 0,
                num_aligned_pairs |-> 0, maxscore |-> 0]).maxscore)

\* A slip: the number to divide by is not looked at
log_score_whatever_the_divisor(maxscore, divisor) ==
    IF maxscore /= 0
    THEN [is_set |-> TRUE, dividend |-> maxscore * 1000, divisor |-> divisor]
    ELSE [is_set |-> FALSE, dividend |-> 0, divisor |-> 1]

\* One of the three scores of calculate_log_score: set from
\* maxscore * final_score_scaling / divisor, or left unset
log_score(maxscore, divisor) ==
    IF maxscore /= 0 /\ divisor /= 0
    THEN [is_set |-> TRUE, dividend |-> maxscore * 1000, divisor |-> divisor]
    ELSE [is_set |-> FALSE, dividend |-> 0, divisor |-> 1]

\* The distance score of a pair and the gap penalty of the querier, a small
\* and a large one being tried for the secondary structures
LogScoreInputs(querier) ==
    IF querier = "residue"
    THEN {[distance_score |-> 10, gap_penalty |-> 50]}
    ELSE {[distance_score |-> 10, gap_penalty |-> 5], [distance_score |-> 10, gap_penalty |-> 50]}

CallCalculateLogScore ==
    /\ call = NoCall
    /\ UNCHANGED otherThanFn
    /\ \E q \in Queriers, length_a \in 0..MaxAlignedLength, length_b \in 0..MaxAlignedLength :
         \E a_posns \in SUBSET (1..length_a), b_posns \in SUBSET (1..length_b),
            input \in LogScoreInputs(q) :
            /\ Cardinality(a_posns) = Cardinality(b_posns)
            /\ LET aln == alignment_from(1, 1, length_a, length_b, a_posns, b_posns)
                   count == calculate_log_score_count(q, aln)
                   scores == final_score_matrix(q, aln, input.distance_score)
                   maxscore == calculate_log_score_maxscore(aln, scores, input.gap_penalty)
                   num_comparable_over_min == num_comparable(q, Min(length_a, length_b))
                   num_comparable_over_max == num_comparable(q, Max(length_a, length_b))
               IN  call' = [fn |-> "calculate_log_score", querier |-> q,
                            length_a |-> length_a, length_b |-> length_b,
                            alignment |-> aln,
                            gap_penalty |-> input.gap_penalty,
                            final_score_matrix |-> scores,
                            maxscore |-> maxscore,
                            count |-> count,
                            num_comparable_over_min |-> num_comparable_over_min,
                            num_comparable_over_max |-> num_comparable_over_max,
                            ssap_score_over_compared |-> log_score(maxscore, count),
                            ssap_score_over_smaller |-> log_score(maxscore, num_comparable_over_min.value),
                            ssap_score_over_larger |-> log_score(maxscore, num_comparable_over_max.value)]

(***************************************************************************)
(* uni/ssap/ssap.cpp: residues_have_similar_area_angle_props.              *)
(*                                                                         *)
(* A residue is its buried value (get_accessi_of_residue), its             *)
(* accessibility and its phi and psi angles; the angles are doubles and    *)
(* are held here in half degrees.                                          *)
(***************************************************************************)
BuriedValues == {0, 1}

Accessibilities == {0, 74, 75, 500}

HalfDegrees == 0..MaxHalfDegrees

Residues == [accessi : BuriedValues, access : Accessibilities, phi_angle : HalfDegrees, psi_angle : HalfDegrees]

\* The values global_res_sim_cutoff is given (lines 251, 291, 556, 575, 610)
ResSimCutoffs == {150, 1000}

\* numeric_cast<size_t>( round( difference( x, y ) ) ) of two angles in half
\* degrees: round() rounds a half away from zero
rounded_angle_diff_in_degrees(angle_i, angle_j) == (Abs(angle_i - angle_j) + 1) \div 2

\* The commented-out alternative of lines 1229 and 1246
residues_have_similar_area_angle_props_difference(prm_residue_i, prm_residue_j, res_sim_cutoff) ==
    LET buried_difference == Abs(prm_residue_i.accessi - prm_residue_j.accessi)
        phi_angle_diff_in_degrees == rounded_angle_diff_in_degrees(prm_residue_i.phi_angle, prm_residue_j.phi_angle)
        psi_angle_diff_in_degrees == rounded_angle_diff_in_degrees(prm_residue_i.psi_angle, prm_residue_j.psi_angle)
        mean_angle_diff_in_degrees == (phi_angle_diff_in_degrees + psi_angle_diff_in_degrees) \div 2
        accessibility_difference == Abs(prm_residue_i.access - prm_residue_j.access)
    IN  buried_difference + accessibility_difference + mean_angle_diff_in_degrees < res_sim_cutoff

residues_have_similar_area_angle_props(prm_residue_i, prm_residue_j, res_sim_cutoff) ==
    LET buried_difference == Abs(prm_residue_i.accessi - prm_residue_j.accessi)
        phi_angle_diff_in_degrees == rounded_angle_diff_in_degrees(prm_residue_i.phi_angle, prm_residue_j.phi_angle)
        psi_angle_diff_in_degrees == rounded_angle_diff_in_degrees(prm_residue_i.psi_angle, prm_residue_j.psi_angle)
        mean_angle_diff_in_degrees == (phi_angle_diff_in_degrees + psi_angle_diff_in_degrees) \div 2
        accessibility_sum == prm_residue_i.access + prm_residue_j.access
    IN  buried_difference + accessibility_sum + mean_angle_diff_in_degrees < res_sim_cutoff

CallResiduesHaveSimilarAreaAngleProps ==
    /\ call = NoCall
    /\ UNCHANGED otherThanFn
    /\ \E residue_i \in Residues, residue_j \in Residues, res_sim_cutoff \in ResSimCutoffs :
         call' = [fn |-> "residues_have_similar_area_angle_props",
                  residue_i |-> residue_i, residue_j |-> residue_j,
                  res_sim_cutoff |-> res_sim_cutoff,
                  result |-> residues_have_similar_area_angle_props(residue_i, residue_j, res_sim_cutoff)]

(***************************************************************************)
(* uni/ssap/ssap.cpp: read_clique_file.                                    *)
(*                                                                         *)
(* A clique file is whether it can be opened, whether its first line can   *)
(* be read, the number of correspondences that line declares and the       *)
(* number of lines that can be read after it.  An equivalency is whether   *)
(* it was scanned from a line read for it or from what the buffer held.    *)
(***************************************************************************)
CliqueFiles == [opens : BOOLEAN, header_read : BOOLEAN, cliquesize : 0..MaxCliqueSize, lines : 0..MaxCliqueSize]

RECURSIVE read_equivalencies(_, _, _)
\* The for_n loop of read_clique_file from its turn-th turn on
read_equivalencies(file, turn, equivs) ==
    IF turn > file.cliquesize THEN [threw |-> "none", equivs |-> equivs]
    ELSE LET buffer_fgets_return_2_is_null == turn > file.lines
         IN  IF ~buffer_fgets_return_2_is_null
             THEN [threw |-> "runtime_error_exception", equivs |-> equivs]
             ELSE read_equivalencies(file, turn + 1, Append(equivs, [from_line |-> FALSE]))

read_clique_file(file) ==
    IF ~file.opens THEN [threw |-> "invalid_argument_exception", equivs |-> << >>]
    ELSE IF ~file.header_read THEN [threw |-> "runtime_error_exception", equivs |-> << >>]
    ELSE read_equivalencies(file, 1, << >>)

CallReadCliqueFile ==
    /\ call = NoCall
    /\ UNCHANGED otherThanFn
    /\ \E file \in CliqueFiles :
          call' = [fn |-> "read_clique_file", file |-> file, result |-> read_clique_file(file)]

(***************************************************************************)
(* The DP aligner (ssap_code_dyn_prog_aligner) as compare and              *)
(* compare_upper_cell use it: a Needleman-Wunsch recurrence over the cells *)
(* of the window, M[i][j] = max(M[i-1][j-1] + score(i,j), M[i-1][j] - gap, *)
(* M[i][j-1] - gap), a cell outside the window being unreachable and a tie *)
(* going to the diagonal, then to the gap in the second entry.  Positions  *)
(* are 1-based; i runs over the first entry, j over the second.            *)
(***************************************************************************)
in_window(window, i, j) == Abs(i - j) <= window

UnreachableCell == [reachable |-> FALSE, score |-> 0, move |-> "none"]

ReachedCell(score, move) == [reachable |-> TRUE, score |-> score, move |-> move]

\* The better of two cells, the first winning a tie
better_of(first, second) ==
    IF ~second.reachable THEN first
    ELSE IF ~first.reachable THEN second
    ELSE IF second.score > first.score THEN second ELSE first

step_from(from_cell, addend, move) ==
    IF from_cell.reachable THEN ReachedCell(from_cell.score + addend, move)
    ELSE UnreachableCell

\* Cell (i, j), from the row above (prev_row, cells 0..length_b at indices
\* 1..length_b + 1) and the cells of this row to its left (this_row)
dp_cell(prev_row, this_row, i, j, window, gap, scores) ==
    IF ~in_window(window, i, j) THEN UnreachableCell
    ELSE IF i = 0 /\ j = 0 THEN ReachedCell(0, "none")
    ELSE IF i = 0 THEN step_from(this_row[j], -gap, "left")
    ELSE IF j = 0 THEN step_from(prev_row[1], -gap, "up")
    ELSE better_of(step_from(prev_row[j], scores[<<i, j>>], "diag"),
                   better_of(step_from(prev_row[j + 1], -gap, "up"),
                             step_from(this_row[j], -gap, "left")))

RECURSIVE dp_row(_, _, _, _, _, _, _, _)
dp_row(prev_row, this_row, i, j, length_b, window, gap, scores) ==
    IF j > length_b THEN this_row
    ELSE dp_row(prev_row,
                Append(this_row, dp_cell(prev_row, this_row, i, j, window, gap, scores)),
                i, j + 1, length_b, window, gap, scores)

RECURSIVE dp_rows(_, _, _, _, _, _, _)
dp_rows(rows, i, length_a, length_b, window, gap, scores) ==
    IF i > length_a THEN rows
    ELSE dp_rows(Append(rows, dp_row(IF i = 0 THEN << >> ELSE rows[i], << >>, i, 0,
                                     length_b, window, gap, scores)),
                 i + 1, length_a, length_b, window, gap, scores)

RECURSIVE traceback(_, _, _)
\* The columns from cell (i, j) back to cell (0, 0), last column first
traceback(matrix, i, j) ==
    IF i = 0 /\ j = 0 THEN << >>
    ELSE LET move == matrix[i + 1][j + 1].move
         IN  IF move = "diag" THEN <<[a |-> i, b |-> j]>> \o traceback(matrix, i - 1, j - 1)
             ELSE IF move = "up" THEN <<[a |-> i, b |-> 0]>> \o traceback(matrix, i - 1, j)
             ELSE <<[a |-> 0, b |-> j]>> \o traceback(matrix, i, j - 1)

\* A slip: the columns are left in the order of the traceback
columns_as_traced(traced) == traced

\* The alignment's columns, first column first
columns_in_order(traced) == [k \in 1..Len(traced) |-> traced[Len(traced) + 1 - k]]

\* ssap_code_dyn_prog_aligner().align( score_source, gap_penalty, window )
align(scores, length_a, length_b, gap, window) ==
    LET matrix == dp_rows(<< >>, 0, length_a, length_b, window, gap, scores)
    IN  [score |-> matrix[length_a + 1][length_b + 1].score,
         alignment |-> columns_in_order(traceback(matrix, length_a, length_b))]

DpCells(length_a, length_b) == (1..length_a) \X (1..length_b)

\* The score sources tried: at most two cells score, both the same
ScoredCellSets(cells) == {{}} \cup {{c1, c2} : c1 \in cells, c2 \in cells}

CellScores == {10, 60}

GapPenalties == {5, 50}

\* Masks tried for the lower level: all pairs allowed, none, the diagonal
LowerMasks(cells) == {cells, {}, {c \in cells : c[1] = c[2]}}

\* A pass is an align pass, which does not look at the lower mask, or not
MaskedPasses(cells) == {<<TRUE, cells>>} \cup ({FALSE} \X LowerMasks(cells))

\* The windows the callers use are no narrower than the difference of the
\* lengths
DpWindows(length_a, length_b) == Abs(length_a - length_b)..MaxDpLength

\* compare: the DP over the upper score matrix
CallCompareAlign ==
    /\ call = NoCall
    /\ UNCHANGED otherThanFn
    /\ \E length_a \in 1..MaxDpLength, length_b \in 1..MaxDpLength, gap \in GapPenalties,
          cell_score \in CellScores :
         \E window \in DpWindows(length_a, length_b),
            scored \in ScoredCellSets(DpCells(length_a, length_b)) :
            LET upper_score_matrix == [c \in DpCells(length_a, length_b) |->
                                         IF c \in scored THEN cell_score ELSE 0]
            IN  call' = [fn |-> "compare", length_a |-> length_a, length_b |-> length_b,
                         window |-> window, gap_penalty |-> gap,
                         scores |-> upper_score_matrix,
                         result |-> align(upper_score_matrix, length_a, length_b, gap, window)]

\* The window helpers: the cells (a, b) of row b lie within window of the
\* diagonal, and are stored from column 1 on
get_window_start_a_for_b__offset_1(length_a, length_b, window, b) == Max(1, b - window)

get_window_stop_a_for_b__offset_1(length_a, length_b, window, b) == Min(length_a, b + window)

get_window_matrix_a_index__offset_1(length_a, length_b, window, a, b) == a - get_window_start_a_for_b__offset_1(length_a, length_b, window, b) + 1

MIN_LOWER_MAT_RES_SCORE == 10

\* numeric_cast<score_type>( double( score ) / normalisation ): the
\* quotient with its fraction dropped
normalised_score(score, prm_normalisation) ==
    IF score >= 0 THEN score \div prm_normalisation ELSE -((-score) \div prm_normalisation)

RECURSIVE trace_onto_upper_matrix(_, _, _, _, _, _, _)
\* The loop of compare_upper_cell over the columns of the lower-level
\* alignment from column alignment_ctr on
trace_onto_upper_matrix(upper_score_matrix, my_alignment, alignment_ctr, length_a, length_b, window, distance_score) ==
    IF alignment_ctr > Len(my_alignment) THEN upper_score_matrix
    ELSE IF has_both_positions_of_index(my_alignment, alignment_ctr)
    THEN LET a_dest_to_index == my_alignment[alignment_ctr].a
             b_dest_to_index == my_alignment[alignment_ctr].b
             a_matrix_idx == get_window_matrix_a_index__offset_1(length_a, length_b, window,
                                                                 a_dest_to_index, b_dest_to_index)
         IN  trace_onto_upper_matrix(
                 [upper_score_matrix EXCEPT ![<<b_dest_to_index, a_matrix_idx>>] =
                                               @ + distance_score[<<a_dest_to_index, b_dest_to_index>>]],
                 my_alignment, alignment_ctr + 1, length_a, length_b, window, distance_score)
    ELSE trace_onto_upper_matrix(upper_score_matrix, my_alignment, alignment_ctr + 1,
                                 length_a, length_b, window, distance_score)

\* A slip: the scores are added to the upper matrix whatever the score is
compare_upper_cell_always_traced(querier, align_pass, distance_score, lower_mask, length_a, length_b, gap, window, prm_normalisation, upper_score_matrix) ==
    LET res_not_ss__hacky == querier = "residue"
        mask_score_source == [c \in DOMAIN distance_score |-> IF c \in lower_mask THEN distance_score[c] ELSE 0]
        the_score_source == IF align_pass THEN distance_score ELSE mask_score_source
        score_and_alignment == align(the_score_source, length_a, length_b, gap, window)
        score == IF res_not_ss__hacky
                 THEN IF prm_normalisation /= 0
                      THEN normalised_score(score_and_alignment.score, prm_normalisation)
                      ELSE 0
                 ELSE score_and_alignment.score
        traced == trace_onto_upper_matrix(upper_score_matrix, score_and_alignment.alignment, 1,
                                          length_a, length_b, window, distance_score)
    IN  [result |-> IF score = 0 THEN "ZERO"
                    ELSE IF res_not_ss__hacky /\ score < MIN_LOWER_MAT_RES_SCORE
                    THEN "NON_ZERO_BELOW_THRESHOLD" ELSE "SCORED",
         upper_score_matrix |-> traced,
         score_and_alignment |-> score_and_alignment, the_score_source |-> the_score_source]

\* compare_upper_cell: the DP over the scores seen from one pair
\* (distance_score, by the pair viewed), masked by the lower mask unless the
\* pass is an align pass; what it returns and the upper score matrix it
\* leaves
compare_upper_cell(querier, align_pass, distance_score, lower_mask, length_a, length_b, gap, window, prm_normalisation, upper_score_matrix) ==
    LET res_not_ss__hacky == querier = "residue"
        mask_score_source == [c \in DOMAIN distance_score |-> IF c \in lower_mask THEN distance_score[c] ELSE 0]
        the_score_source == IF align_pass THEN distance_score ELSE mask_score_source
        score_and_alignment == align(the_score_source, length_a, length_b, gap, window)
        score == IF res_not_ss__hacky
                 THEN IF prm_normalisation /= 0
                      THEN normalised_score(score_and_alignment.score, prm_normalisation)
                      ELSE 0
                 ELSE score_and_alignment.score
        traced == trace_onto_upper_matrix(upper_score_matrix, score_and_alignment.alignment, 1,
                                          length_a, length_b, window, distance_score)
    IN  [result |-> IF score = 0 THEN "ZERO"
                    ELSE IF res_not_ss__hacky /\ score < MIN_LOWER_MAT_RES_SCORE
                    THEN "NON_ZERO_BELOW_THRESHOLD" ELSE "SCORED",
         upper_score_matrix |-> IF score = 0 \/ (res_not_ss__hacky /\ score < MIN_LOWER_MAT_RES_SCORE)
                                THEN upper_score_matrix ELSE traced,
         score_and_alignment |-> score_and_alignment, the_score_source |-> the_score_source]

\* The normaliser a residue comparison is given, or 1 for the secondary
\* structures, which do not use it
Normalisations(querier) == IF querier = "residue" THEN {0, 7} ELSE {1}

\* The upper score matrix before the call: (length_b + 1) rows of
\* (length_a + window + 1) cells, holding what earlier calls have added
UpperScoreMatrixBefore(length_a, length_b, window) ==
    [cell \in (0..length_b) \X (0..(length_a + window)) |-> cell[1] + cell[2]]

CallCompareUpperCellAlign ==
    /\ call = NoCall
    /\ UNCHANGED otherThanFn
    /\ \E length_a \in 1..MaxDpLength, length_b \in 1..MaxDpLength, gap \in GapPenalties,
          cell_score \in CellScores, querier \in Queriers :
         \E window \in DpWindows(length_a, length_b),
            scored \in ScoredCellSets(DpCells(length_a, length_b)),
            pass \in MaskedPasses(DpCells(length_a, length_b)),
            prm_normalisation \in Normalisations(querier) :
            LET align_pass == pass[1]
                lower_mask == pass[2]
                distance_score == [c \in DpCells(length_a, length_b) |->
                                     IF c \in scored THEN cell_score ELSE 0]
                upper_score_matrix == UpperScoreMatrixBefore(length_a, length_b, window)
                compared == compare_upper_cell(querier, align_pass, distance_score, lower_mask,
                                               length_a, length_b, gap, window,
                                               prm_normalisation, upper_score_matrix)
            IN  call' = [fn |-> "compare_upper_cell", querier |-> querier,
                         length_a |-> length_a, length_b |-> length_b,
                         window |-> window, gap_penalty |-> gap,
                         normalisation |-> prm_normalisation,
                         distance_score |-> distance_score,
                         scores |-> compared.the_score_source,
                         result |-> compared.score_and_alignment,
                         cell_result |-> compared.result,
                         upper_before |-> upper_score_matrix,
                         upper_after |-> compared.upper_score_matrix]

NextAlign ==
    \/ CallCompareAlign
    \/ CallCompareUpperCellAlign

(***************************************************************************)
(* uni/ssap/ssap.cpp: select_pairs, update_best_pair_selections and        *)
(* populate_upper_score_matrix, as one compare() runs them.                *)
(*                                                                         *)
(* A boolean matrix is the set of its true cells <<b, a>>.  What           *)
(* are_similar__offset_1 says of a pair, and the score pass 1 left in a    *)
(* cell of the upper score matrix, are inputs, chosen when select_pairs    *)
(* comes to the cell (it comes to each cell once).  The number of          *)
(* selections kept, 20 in the source, is scaled down with the structures.  *)
(***************************************************************************)
NUM_SELECTIONS_TO_SAVE == 2

RECURSIVE reversed_range(_, _)
\* irange( start - 1, stop ) | reversed, each value plus one
reversed_range(start, stop) == IF stop < start THEN << >> ELSE <<stop>> \o reversed_range(start, stop - 1)

RECURSIVE window_cells_from(_, _, _, _)
\* The cells <<a, b>> of the rows b, b - 1 .. 1 in the order the loops of
\* select_pairs come to them
window_cells_from(length_a, length_b, window, b) ==
    IF b = 0 THEN << >>
    ELSE LET row == reversed_range(get_window_start_a_for_b__offset_1(length_a, length_b, window, b),
                                   get_window_stop_a_for_b__offset_1(length_a, length_b, window, b))
         IN  [k \in 1..Len(row) |-> <<row[k], b>>] \o window_cells_from(length_a, length_b, window, b - 1)

selected_pair(index_a, index_b, score) == [index_a |-> index_a, index_b |-> index_b, score |-> score]

RECURSIVE stable_sort(_)
\* stable_sort of selected_pairs, which are ordered by their scores
stable_sort(pairs) ==
    IF pairs = << >> THEN << >>
    ELSE LET rest == stable_sort(Tail(pairs))
             before == SelectSeq(rest, LAMBDA other : other.score < Head(pairs).score)
             after  == SelectSeq(rest, LAMBDA other : ~(other.score < Head(pairs).score))
         IN  before \o <<Head(pairs)>> \o after

mask_set(mask, b, a, value) == IF value THEN mask \cup {<<b, a>>} ELSE mask \ {<<b, a>>}

\* A slip: the lowest pair is not removed when the list was already full
update_best_pair_selections_no_removal(prm_selected_pairs, lower_mask, prm_potential_pair, prm_max_num_selections) ==
    LET index_a == prm_potential_pair.index_a
        index_b == prm_potential_pair.index_b
        cleared == mask_set(lower_mask, index_b, index_a, FALSE)
        full == Len(prm_selected_pairs) >= prm_max_num_selections
        new_beats_first == /\ prm_selected_pairs /= << >>
                           /\ prm_potential_pair.score > Head(prm_selected_pairs).score
        sorted == stable_sort(<<prm_potential_pair>> \o prm_selected_pairs)
    IN  IF ~full \/ new_beats_first
        THEN IF full
             THEN [selected_pairs |-> sorted,
                   lower_mask |-> mask_set(mask_set(cleared, Head(sorted).index_b, Head(sorted).index_a, FALSE),
                                           index_b, index_a, TRUE)]
             ELSE [selected_pairs |-> sorted, lower_mask |-> mask_set(cleared, index_b, index_a, TRUE)]
        ELSE [selected_pairs |-> prm_selected_pairs, lower_mask |-> cleared]

\* The selected pairs and the lower mask after the call
update_best_pair_selections(prm_selected_pairs, lower_mask, prm_potential_pair, prm_max_num_selections) ==
    LET index_a == prm_potential_pair.index_a
        index_b == prm_potential_pair.index_b
        cleared == mask_set(lower_mask, index_b, index_a, FALSE)
        full == Len(prm_selected_pairs) >= prm_max_num_selections
        new_beats_first == /\ prm_selected_pairs /= << >>
                           /\ prm_potential_pair.score > Head(prm_selected_pairs).score
        sorted == stable_sort(<<prm_potential_pair>> \o prm_selected_pairs)
    IN  IF ~full \/ new_beats_first
        THEN IF full
             THEN [selected_pairs |-> Tail(sorted),
                   lower_mask |-> mask_set(mask_set(cleared, Head(sorted).index_b, Head(sorted).index_a, FALSE),
                                           index_b, index_a, TRUE)]
             ELSE [selected_pairs |-> sorted, lower_mask |-> mask_set(cleared, index_b, index_a, TRUE)]
        ELSE [selected_pairs |-> prm_selected_pairs, lower_mask |-> cleared]

NoSelectCall == [querier |-> "none"]

InitSelect ==
    /\ spc = "idle"
    /\ select_call = NoSelectCall
    /\ cell_ctr = 0
    /\ selected_pairs = << >>
    /\ offered = << >>
    /\ select_counts = [num_entries_selected |-> 0, total_num_entries_considered |-> 0]
    /\ select_writes = {}
    /\ global_lower_mask_matrix = {}
    /\ global_upper_ss_mask_matrix = {}
    /\ global_upper_res_mask_matrix = {}
    /\ global_selections = << >>
    /\ global_num_selections = 0
    /\ global_frac_selected = [num |-> 0, den |-> 1]
    /\ ctr_b__offset_1 = 0
    /\ upper_cell_calls = << >>
    /\ normalisation = [frac_selected |-> [num |-> 0, den |-> 1], radicand |-> 0]

\* The cells of the window in the order of select_pairs' loops
SelectCells == window_cells_from(select_call.length_a, select_call.length_b, select_call.window, select_call.length_b)

\* The windows compare() is called under are no narrower than the
\* difference of the lengths
SelectWindows(length_a, length_b) == Abs(length_a - length_b)..MaxSelectLength

\* The masks as a set of cells may be left by what ran before: none or all
MasksLeft(cells) == {{}, cells}

\* The residue pairs tried as guided (by the clique, or by the secondary
\* structure alignment) or as similar in area and angles: none, all, the
\* diagonal
PairSetsTried(cells) == {{}, cells, {c \in cells : c[1] = c[2]}}

\* How set_mask_matrix is called: in a fast SSAP with a clique file or with
\* the secondary structure alignment, or in a slow SSAP, which has neither
MaskModes(cells) ==
    {[doing_fast_ssap |-> TRUE, has_clique |-> clique, guided |-> guided] :
        clique \in BOOLEAN, guided \in PairSetsTried(cells) \ {{}}}
    \cup {[doing_fast_ssap |-> FALSE, has_clique |-> FALSE, guided |-> {}]}

\* The cells <<b, a>> of the pairs of the window
window_pairs(length_a, length_b, window) ==
    {c \in (1..length_b) \X (1..length_a) :
       /\ c[2] >= get_window_start_a_for_b__offset_1(length_a, length_b, window, c[1])
       /\ c[2] <= get_window_stop_a_for_b__offset_1(length_a, length_b, window, c[1])}

\* A slip: the masks are not set to false before the pairs are chosen
set_mask_matrix_without_reset(prm_upper_res_mask, prm_upper_ss_mask, prm_lower_mask, length_a, length_b, window, mode, similar) ==
    LET lower_mask == IF mode.has_clique THEN prm_lower_mask \cup mode.guided ELSE prm_lower_mask
        selected == {c \in window_pairs(length_a, length_b, window) :
                       /\ c \in similar
                       /\ mode.doing_fast_ssap =>
                             IF mode.has_clique THEN c \in lower_mask ELSE c \in mode.guided}
    IN  [upper_res_mask |-> prm_upper_res_mask \cup
                               {<<c[1], get_window_matrix_a_index__offset_1(length_a, length_b, window, c[2], c[1])>> :
                                  c \in selected},
         upper_ss_mask |-> prm_upper_ss_mask,
         lower_mask |-> lower_mask,
         num_selections |-> 0,
         frac_selected |-> [num |-> Cardinality(selected),
                            den |-> Cardinality(window_pairs(length_a, length_b, window))]]

\* set_mask_matrix: the masks set to false over the rows 0..length_b and the
\* columns 0..length_a, the lower mask set for the pairs the clique guides
\* (mode.guided, when there is a clique file), the upper residue mask set
\* for the pairs of the window that are similar (and guided, in a fast
\* SSAP), and the fraction of the pairs of the window so selected
set_mask_matrix(prm_upper_res_mask, prm_upper_ss_mask, prm_lower_mask, length_a, length_b, window, mode, similar) ==
    LET initialised == (0..length_b) \X (0..length_a)
        lower_mask == IF mode.has_clique
                      THEN (prm_lower_mask \ initialised) \cup mode.guided
                      ELSE prm_lower_mask \ initialised
        selected == {c \in window_pairs(length_a, length_b, window) :
                       /\ c \in similar
                       /\ mode.doing_fast_ssap =>
                             IF mode.has_clique THEN c \in lower_mask ELSE c \in mode.guided}
    IN  [upper_res_mask |-> (prm_upper_res_mask \ initialised) \cup
                               {<<c[1], get_window_matrix_a_index__offset_1(length_a, length_b, window, c[2], c[1])>> :
                                  c \in selected},
         upper_ss_mask |-> prm_upper_ss_mask \ initialised,
         lower_mask |-> lower_mask,
         num_selections |-> 0,
         frac_selected |-> [num |-> Cardinality(selected),
                            den |-> Cardinality(window_pairs(length_a, length_b, window))]]

\* compare() up to the loop of select_pairs.  The masks hold what an earlier
\* compare() of the same pair of proteins left (left_before: nothing, or
\* every pair of the two proteins); pass 1 and the secondary structures
\* assign the lower mask and the upper secondary structure mask false, and
\* pass 1 of the residues calls set_mask_matrix; pass 2 of the residues
\* finds the masks pass 1 left
SelectPairsBegin ==
    /\ spc = "idle"
    /\ \E querier \in Queriers, prm_pass \in {1, 2}, length_a \in 1..MaxSelectLength,
          length_b \in 1..MaxSelectLength :
         \E window \in SelectWindows(length_a, length_b) :
            LET raw_cells == {<<b, a>> : b \in 1..length_b, a \in 1..length_a}
                in_window_cells == {c \in raw_cells : in_window(window, c[2], c[1])}
                windowed_cells == {<<c[1], get_window_matrix_a_index__offset_1(length_a, length_b, window, c[2], c[1])>> :
                                     c \in in_window_cells}
            IN  /\ prm_pass = 2 => querier = "residue"
                /\ IF querier = "residue" /\ prm_pass = 1
                   THEN \E left_before \in MasksLeft(raw_cells), mode \in MaskModes(raw_cells),
                           similar \in PairSetsTried(raw_cells) :
                          LET masks == set_mask_matrix(left_before, {}, {}, length_a, length_b,
                                                       window, mode, similar)
                          IN  /\ select_call' = [querier |-> querier, pass |-> prm_pass,
                                                 align_pass |-> FALSE,
                                                 length_a |-> length_a, length_b |-> length_b,
                                                 window |-> window, left_before |-> left_before,
                                                 mode |-> mode, similar |-> similar]
                              /\ global_upper_res_mask_matrix' = masks.upper_res_mask
                              /\ global_upper_ss_mask_matrix' = masks.upper_ss_mask
                              /\ global_lower_mask_matrix' = masks.lower_mask
                              /\ global_num_selections' = masks.num_selections
                              /\ global_frac_selected' = masks.frac_selected
                   ELSE /\ select_call' = [querier |-> querier, pass |-> prm_pass,
                                           align_pass |-> (prm_pass > 1),
                                           length_a |-> length_a, length_b |-> length_b,
                                           window |-> window, left_before |-> {},
                                           mode |-> [doing_fast_ssap |-> TRUE, has_clique |-> FALSE,
                                                     guided |-> {}],
                                           similar |-> {}]
                        /\ IF querier = "residue"
                           THEN /\ global_upper_res_mask_matrix' \in MasksLeft(windowed_cells)
                                /\ global_lower_mask_matrix' \in MasksLeft(in_window_cells)
                                /\ global_upper_ss_mask_matrix' = global_lower_mask_matrix'
                           ELSE /\ global_upper_res_mask_matrix' = {}
                                /\ global_lower_mask_matrix' = {}
                                /\ global_upper_ss_mask_matrix' = {}
                        /\ UNCHANGED <<global_num_selections, global_frac_selected>>
    /\ spc' = "select_pairs"
    /\ cell_ctr' = 1
    /\ selected_pairs' = << >>
    /\ select_counts' = [num_entries_selected |-> 0, total_num_entries_considered |-> 0]
    /\ UNCHANGED <<otherThanSelect, offered, select_writes, global_selections,
                   ctr_b__offset_1, upper_cell_calls, normalisation>>

\* A slip: a pair that is not similar leaves the masks as they were
SelectPairsCell_set_only ==
    /\ spc = "select_pairs"
    /\ cell_ctr <= Len(SelectCells)
    /\ LET ctr_a__offset_1 == SelectCells[cell_ctr][1]
           ctr_b == SelectCells[cell_ctr][2]
       IN  IF select_call.pass = 1
           THEN \E are_similar \in BOOLEAN :
                  /\ global_lower_mask_matrix' = 
                        IF are_similar THEN mask_set(global_lower_mask_matrix, ctr_b, ctr_a__offset_1, TRUE) ELSE global_lower_mask_matrix
                  /\ global_upper_ss_mask_matrix' = mask_set(global_upper_ss_mask_matrix, ctr_b, ctr_a__offset_1, are_similar)
                  /\ select_writes' = select_writes \cup {<<ctr_b, ctr_a__offset_1>>}
                  /\ select_counts' =
                        [num_entries_selected |-> select_counts.num_entries_selected + (IF are_similar THEN 1 ELSE 0),
                         total_num_entries_considered |-> select_counts.total_num_entries_considered + 1]
                  /\ offered' = Append(offered, [index_a |-> ctr_a__offset_1, index_b |-> ctr_b, similar |-> are_similar])
                  /\ UNCHANGED selected_pairs
           ELSE \E score \in 0..MaxCellScore :
                  LET updated == update_best_pair_selections(selected_pairs, global_lower_mask_matrix,
                                                             selected_pair(ctr_a__offset_1, ctr_b, score),
                                                             NUM_SELECTIONS_TO_SAVE)
                  IN  /\ selected_pairs' = updated.selected_pairs
                      /\ global_lower_mask_matrix' = updated.lower_mask
                      /\ offered' = Append(offered, selected_pair(ctr_a__offset_1, ctr_b, score))
                      /\ select_counts' = [select_counts EXCEPT !.total_num_entries_considered = @ + 1]
                      /\ UNCHANGED <<global_upper_ss_mask_matrix, select_writes>>
    /\ cell_ctr' = cell_ctr + 1
    /\ UNCHANGED <<otherThanSelect, spc, select_call, global_upper_res_mask_matrix,
                   global_selections, global_num_selections, global_frac_selected,
                   ctr_b__offset_1, upper_cell_calls, normalisation>>

\* One turn of the inner loop of select_pairs
SelectPairsCell ==
    /\ spc = "select_pairs"
    /\ cell_ctr <= Len(SelectCells)
    /\ LET ctr_a__offset_1 == SelectCells[cell_ctr][1]
           ctr_b == SelectCells[cell_ctr][2]
       IN  IF select_call.pass = 1
           THEN \E are_similar \in BOOLEAN :
                  /\ global_lower_mask_matrix' = mask_set(global_lower_mask_matrix, ctr_b, ctr_a__offset_1, are_similar)
                  /\ global_upper_ss_mask_matrix' = mask_set(global_upper_ss_mask_matrix, ctr_b, ctr_a__offset_1, are_similar)
                  /\ select_writes' = select_writes \cup {<<ctr_b, ctr_a__offset_1>>}
                  /\ select_counts' =
                        [num_entries_selected |-> select_counts.num_entries_selected + (IF are_similar THEN 1 ELSE 0),
                         total_num_entries_considered |-> select_counts.total_num_entries_considered + 1]
                  /\ offered' = Append(offered, [index_a |-> ctr_a__offset_1, index_b |-> ctr_b, similar |-> are_similar])
                  /\ UNCHANGED selected_pairs
           ELSE \E score \in 0..MaxCellScore :
                  LET updated == update_best_pair_selections(selected_pairs, global_lower_mask_matrix,
                                                             selected_pair(ctr_a__offset_1, ctr_b, score),
                                                             NUM_SELECTIONS_TO_SAVE)
                  IN  /\ selected_pairs' = updated.selected_pairs
                      /\ global_lower_mask_matrix' = updated.lower_mask
                      /\ offered' = Append(offered, selected_pair(ctr_a__offset_1, ctr_b, score))
                      /\ select_counts' = [select_counts EXCEPT !.total_num_entries_considered = @ + 1]
                      /\ UNCHANGED <<global_upper_ss_mask_matrix, select_writes>>
    /\ cell_ctr' = cell_ctr + 1
    /\ UNCHANGED <<otherThanSelect, spc, select_call, global_upper_res_mask_matrix,
                   global_selections, global_num_selections, global_frac_selected,
                   ctr_b__offset_1, upper_cell_calls, normalisation>>

\* The place in global_selections of the selected pair selected_ctr
\* (1-based here): the pairs go to the end of the indices 1..NUM_SELECTIONS_TO_SAVE
index_in_global_selections(num_selected, selected_ctr) == NUM_SELECTIONS_TO_SAVE + 1 - (num_selected - (selected_ctr - 1))

\* The number under the root of the normaliser, for each of its structures
normalisation_num(querier) == IF querier = "residue" THEN 200 ELSE 25

\* select_pairs after its loops, and populate_upper_score_matrix up to its
\* loop
SelectPairsEnd ==
    /\ spc = "select_pairs"
    /\ cell_ctr > Len(SelectCells)
    /\ LET using_selections == select_call.align_pass /\ select_call.querier = "residue"
           num_entries_selected == IF select_call.pass > 1 THEN NUM_SELECTIONS_TO_SAVE
                                   ELSE select_counts.num_entries_selected
       IN  /\ select_counts' = [select_counts EXCEPT !.num_entries_selected = num_entries_selected]
           /\ IF using_selections
              THEN /\ global_selections' =
                         [index \in 0..NUM_SELECTIONS_TO_SAVE |->
                            IF \E selected_ctr \in 1..Len(selected_pairs) :
                                  index_in_global_selections(Len(selected_pairs), selected_ctr) = index
                            THEN LET selected_ctr == CHOOSE ctr \in 1..Len(selected_pairs) :
                                                        index_in_global_selections(Len(selected_pairs), ctr) = index
                                 IN  <<selected_pairs[selected_ctr].index_a, selected_pairs[selected_ctr].index_b>>
                            ELSE <<0, 0>>]
                   /\ global_num_selections' = NUM_SELECTIONS_TO_SAVE
                   /\ global_frac_selected' = [num |-> num_entries_selected,
                                               den |-> select_counts.total_num_entries_considered]
                   /\ ctr_b__offset_1' = NUM_SELECTIONS_TO_SAVE
              ELSE /\ ctr_b__offset_1' = select_call.length_b
                   /\ UNCHANGED <<global_selections, global_num_selections, global_frac_selected>>
           /\ LET length_a == select_call.length_a
                  length_b == IF using_selections THEN global_num_selections' ELSE select_call.length_b
              IN  normalisation' = [frac_selected |-> global_frac_selected',
                                    radicand |-> normalisation_num(select_call.querier) * Min(length_a, length_b)]
    /\ spc' = "populate"
    /\ UNCHANGED <<otherThanSelect, select_call, cell_ctr, selected_pairs, offered,
                   select_writes, global_lower_mask_matrix, global_upper_ss_mask_matrix,
                   global_upper_res_mask_matrix, upper_cell_calls>>

\* One turn of the outer loop of populate_upper_score_matrix: the row
\* ctr_b__offset_1, or the selection of that index on an align pass of the
\* residues.  The a-loop of a selection <<0, 0>> runs over
\* irange( 0 - 1, 0 ), a range whose first value is above its last: irange
\* asserts against it, and without the assertion the reversed range yields
\* the one value 0 - 1, so that compare_upper_cell is handed the pair (0, 0),
\* which check_offset_1 rejects.
PopulateRow ==
    /\ spc = "populate"
    /\ ctr_b__offset_1 >= 1
    /\ LET using_selections == select_call.align_pass /\ select_call.querier = "residue"
           length_a == select_call.length_a
           length_b == IF using_selections THEN global_num_selections ELSE select_call.length_b
           window_start__offset_1 ==
               IF using_selections THEN global_selections[ctr_b__offset_1][1]
               ELSE get_window_start_a_for_b__offset_1(length_a, length_b, select_call.window, ctr_b__offset_1)
           window_stop__offset_1 ==
               IF using_selections THEN global_selections[ctr_b__offset_1][1]
               ELSE get_window_stop_a_for_b__offset_1(length_a, length_b, select_call.window, ctr_b__offset_1)
           jval == IF using_selections THEN global_selections[ctr_b__offset_1][2] ELSE ctr_b__offset_1
           should_compare_pair(ctr_a__offset_1) ==
               IF using_selections THEN TRUE
               ELSE IF select_call.querier = "residue"
               THEN <<ctr_b__offset_1,
                      get_window_matrix_a_index__offset_1(length_a, length_b, select_call.window,
                                                          ctr_a__offset_1, ctr_b__offset_1)>>
                    \in global_upper_res_mask_matrix
               ELSE <<ctr_b__offset_1, ctr_a__offset_1>> \in global_upper_ss_mask_matrix
           row == SelectSeq(reversed_range(window_start__offset_1, window_stop__offset_1), should_compare_pair)
       IN  IF window_start__offset_1 = 0
           THEN /\ spc' = "crashed"
                /\ \/ UNCHANGED upper_cell_calls
                   \/ upper_cell_calls' = Append(upper_cell_calls, <<0, jval>>)
                /\ UNCHANGED ctr_b__offset_1
           ELSE /\ upper_cell_calls' = upper_cell_calls \o [k \in 1..Len(row) |-> <<row[k], jval>>]
                /\ ctr_b__offset_1' = ctr_b__offset_1 - 1
                /\ spc' = IF ctr_b__offset_1 = 1 THEN "populated" ELSE "populate"
    /\ UNCHANGED <<otherThanSelect, select_call, cell_ctr, selected_pairs, offered,
                   select_counts, select_writes, global_lower_mask_matrix,
                   global_upper_ss_mask_matrix, global_upper_res_mask_matrix,
                   global_selections, global_num_selections, global_frac_selected,
                   normalisation>>

NextSelect ==
    \/ SelectPairsBegin
    \/ SelectPairsCell
    \/ SelectPairsEnd
    \/ PopulateRow

(***************************************************************************)
(* uni/ssap/ssap.cpp: run_ssap, align_proteins, fast_ssap and compare.     *)
(*                                                                         *)
(* What a compare() call computes from the proteins' geometry (whether the *)
(* upper-level DP score is zero, and the log scores of the alignment) is   *)
(* an input: it is chosen when the call is made and remembered in          *)
(* dp_outcome under the parameters the call read, so that a compare()      *)
(* repeated with the same proteins and the same parameters computes the    *)
(* same.  SSAP's real-valued scores are drawn from the levels 0..MaxLevel. *)
(***************************************************************************)
Levels == 0..MaxLevel

\* ssap_scores: 0 stands for a score left unset
DefaultScores == [over_larger |-> 0, over_smaller |-> 0]

EmptyLine       == [kind |-> "empty"]
ZeroLine(nflds) == [kind |-> "zero", fields |-> nflds]
ScoreLine(s)    == [kind |-> "scores", score |-> s]

ProteinLengths == {0, MaxProteinLength - 1, MaxProteinLength}

ProteinPairs ==
    { pp \in [length_a : ProteinLengths, length_b : ProteinLengths,
              nsec_a : 0..2, nsec_b : 0..2] :
        /\ pp.nsec_a \in {Min(pp.length_a, 1), Min(pp.length_a, 2)}
        /\ pp.nsec_b \in {Min(pp.length_b, 1), Min(pp.length_b, 2)} }

\* Where run_ssap's scores_stream refers to: prm_scores_stream when it is
\* supplied, else prm_stdout, or (output_to_file) the ofstream
\* file_out_stream, a local of a block that has ended when the stream is used
ScoresStreams == {"prm_scores_stream", "prm_stdout", "file_out_stream"}

OptionsBlocks ==
    [slow_ssap_only               : BOOLEAN,
     clique_file                  : BOOLEAN,
     use_local_ssap_score         : BOOLEAN,
     write_all_scores             : BOOLEAN,
     max_score_to_fast_ssap_rerun : {1},
     max_score_to_slow_ssap_rerun : {1},
     scores_stream                : ScoresStreams]

has_clique_file(opts) == opts.clique_file

\* The outcomes a compare() can have: only pass 2 of a residue comparison
\* scores its alignment (plot_aln returns early otherwise)
Outcomes(querier, pass) ==
    IF querier = "residue" /\ pass = 2
    THEN { o \in [dp_zero : BOOLEAN, over_larger : Levels, over_smaller : Levels] :
             /\ o.over_larger <= o.over_smaller
             /\ o.dp_zero => o.over_smaller = 0 }
    ELSE { [dp_zero |-> z, over_larger |-> 0, over_smaller |-> 0] : z \in BOOLEAN }

\* The parameters a compare() reads besides the proteins
CompareKey(querier, pass, window, gap_penalty, doing_fast_ssap, res_sim_cutoff) ==
    [querier |-> querier, pass |-> pass, window |-> window, gap_penalty |-> gap_penalty,
     doing_fast_ssap |-> IF querier = "residue" THEN doing_fast_ssap ELSE TRUE,
     res_sim_cutoff  |-> IF querier = "residue" THEN res_sim_cutoff ELSE 0]

Remember(key, o) ==
    [k \in DOMAIN dp_outcome \cup {key} |-> IF k = key THEN o ELSE dp_outcome[k]]

\* save_zero_scores: the slot selected by the run counter, as a record of
\* the four globals it may write
save_zero_scores(run_counter, slots) ==
    IF run_counter = 1
    THEN [slots EXCEPT !.line1 = ZeroLine(9), !.score1 = 0]
    ELSE IF run_counter = 2
    THEN [slots EXCEPT !.line2 = ZeroLine(10), !.score2 = 0]
    ELSE slots

\* save_ssap_scores: likewise
save_ssap_scores(run_counter, select_score, slots) ==
    IF run_counter = 1
    THEN [slots EXCEPT !.line1 = ScoreLine(select_score), !.score1 = select_score]
    ELSE IF run_counter = 2
    THEN [slots EXCEPT !.line2 = ScoreLine(select_score), !.score2 = select_score]
    ELSE slots

Slots ==
    [line1 |-> global_ssap_line1, line2 |-> global_ssap_line2,
     score1 |-> global_ssap_score1, score2 |-> global_ssap_score2]

SetSlots(slots) ==
    /\ global_ssap_line1'  = slots.line1
    /\ global_ssap_line2'  = slots.line2
    /\ global_ssap_score1' = slots.score1
    /\ global_ssap_score2' = slots.score2

select_score_of(scores) ==
    IF options.use_local_ssap_score THEN scores.over_smaller ELSE scores.over_larger

\* A slip: the zero scores of a failed residue comparison always go to slot 1
compare_slots_first_slot(querier, pass, o) ==
    IF querier /= "residue" THEN Slots
    ELSE IF o.dp_zero THEN save_zero_scores(1, Slots)
    ELSE IF pass = 2
    THEN save_ssap_scores(global_run_counter,
                          select_score_of([over_larger |-> o.over_larger,
                                           over_smaller |-> o.over_smaller]),
                          Slots)
    ELSE Slots

\* The score slots after compare(): plot_aln / save_ssap_scores when the DP
\* score is not 0 (residues, pass 2), save_zero_scores when a residue
\* comparison's DP score is 0
compare_slots(querier, pass, o) ==
    IF querier /= "residue" THEN Slots
    ELSE IF o.dp_zero THEN save_zero_scores(global_run_counter, Slots)
    ELSE IF pass = 2
    THEN save_ssap_scores(global_run_counter,
                          select_score_of([over_larger |-> o.over_larger,
                                           over_smaller |-> o.over_smaller]),
                          Slots)
    ELSE Slots

\* The ssap_scores compare() returns
compare_scores(querier, pass, o) ==
    IF querier = "residue" /\ pass = 2 /\ ~o.dp_zero
    THEN [over_larger |-> o.over_larger, over_smaller |-> o.over_smaller]
    ELSE DefaultScores

\* plot_aln: the scores of the two runs once this call has stored its own
score_runs(querier, pass, o) ==
    LET scored == querier = "residue" /\ pass = 2 /\ ~o.dp_zero
        select_score == select_score_of(compare_scores(querier, pass, o))
    IN  [run1 |-> IF scored /\ global_doing_fast_ssap THEN select_score
                  ELSE global_score_run1,
         run2 |-> IF scored /\ ~global_doing_fast_ssap THEN select_score
                  ELSE global_score_run2]

NoOutScore == -1

\* plot_aln: the score it gives the alignment it means to write; the file
\* of the two proteins is then written, over the one of an earlier run,
\* when this score is high enough for writing files
plot_aln_out_score(doing_fast_ssap, score_run1, score_run2) ==
    IF doing_fast_ssap THEN score_run1
    ELSE IF score_run2 > score_run1 THEN score_run2
    ELSE NoOutScore

\* Whether this compare() chose its alignment for writing
alignment_chosen(querier, pass, o) ==
    /\ querier = "residue" /\ pass = 2 /\ ~o.dp_zero
    /\ plot_aln_out_score(global_doing_fast_ssap, score_runs(querier, pass, o).run1,
                          score_runs(querier, pass, o).run2) > NoOutScore

\* compare(): the globals are read as they are when the call is made, but
\* for global_align_pass, which the caller's loop sets just before
compare(querier, pass, prm_previous_ss_alignment) ==
    LET key == CompareKey(querier, pass, global_window, global_gap_penalty,
                          global_doing_fast_ssap, global_res_sim_cutoff)
    IN  \E o \in Outcomes(querier, pass) :
          /\ key \in DOMAIN dp_outcome => o = dp_outcome[key]
          /\ dp_outcome' = Remember(key, o)
          /\ compare_log' = Append(compare_log,
                                   [querier |-> querier, pass |-> pass,
                                    run_counter |-> global_run_counter,
                                    doing_fast_ssap |-> global_doing_fast_ssap,
                                    window |-> global_window,
                                    window_add |-> global_window_add,
                                    scores |-> compare_scores(querier, pass, o),
                                    slots |-> compare_slots(querier, pass, o),
                                    res_sim_cutoff |-> global_res_sim_cutoff,
                                    ss_alignment |-> prm_previous_ss_alignment,
                                    dp_zero |-> o.dp_zero,
                                    alignment_chosen |-> alignment_chosen(querier, pass, o)])
          /\ SetSlots(compare_slots(querier, pass, o))
          /\ new_ssap_scores' = compare_scores(querier, pass, o)
          /\ global_res_score' =
                IF querier = "residue" THEN ~o.dp_zero ELSE global_res_score
          /\ global_score_run1' = score_runs(querier, pass, o).run1
          /\ global_score_run2' = score_runs(querier, pass, o).run2

\* The variables compare() may write
compareVars ==
    <<dp_outcome, compare_log, global_ssap_line1, global_ssap_line2, global_ssap_score1,
      global_ssap_score2, new_ssap_scores, global_res_score, global_score_run1,
      global_score_run2>>

NoProteins == [length_a |-> 0, length_b |-> 0, nsec_a |-> 0, nsec_b |-> 0]

NoOptions ==
    [slow_ssap_only |-> FALSE, clique_file |-> FALSE, use_local_ssap_score |-> FALSE,
     write_all_scores |-> FALSE, max_score_to_fast_ssap_rerun |-> 1,
     max_score_to_slow_ssap_rerun |-> 1, scores_stream |-> "prm_stdout"]

NoResult == [comparison |-> 0]

\* The globals as their definitions initialise them
GlobalsInitially ==
    /\ global_window          = 0
    /\ global_window_add      = 70
    /\ global_res_sim_cutoff  = 150
    /\ global_run_counter     = 0
    /\ global_gap_penalty     = 50
    /\ global_align_pass      = FALSE
    /\ global_doing_fast_ssap = TRUE
    /\ global_res_score       = FALSE
    /\ global_score_run1      = 0
    /\ global_score_run2      = 0
    /\ global_ssap_score1     = 0
    /\ global_ssap_score2     = 0
    /\ global_ssap_line1      = EmptyLine
    /\ global_ssap_line2      = EmptyLine

InitSsap ==
    /\ GlobalsInitially
    /\ pc = "run_ssap"
    /\ fast_call = 0
    /\ first_score = 0
    /\ fast_ssap_scores = DefaultScores
    /\ new_ssap_scores = DefaultScores
    /\ proteins = NoProteins
    /\ options = NoOptions
    /\ dp_outcome = << >>
    /\ scores_stream = << >>
    /\ compare_log = << >>
    /\ comparison = 0
    /\ first_result = NoResult

reset_ssap_global_variables ==
    /\ global_window'          = 0
    /\ global_window_add'      = 70
    /\ global_res_sim_cutoff'  = 150
    /\ global_run_counter'     = 0
    /\ global_gap_penalty'     = 50
    /\ global_align_pass'      = FALSE
    /\ global_doing_fast_ssap' = TRUE
    /\ global_res_score'       = FALSE
    /\ global_score_run1'      = 0
    /\ global_score_run2'      = 0
    /\ global_ssap_score1'     = 0
    /\ global_ssap_score2'     = 0
    /\ global_ssap_line1'      = EmptyLine
    /\ global_ssap_line2'      = EmptyLine

\* run_ssap up to the test of the proteins' lengths: the reset, the options
\* it is given and the proteins it reads
RunSsapBegin ==
    /\ pc = "run_ssap"
    /\ reset_ssap_global_variables
    /\ \E pp \in ProteinPairs, ob \in OptionsBlocks :
          /\ proteins' = pp
          /\ options' = ob
    /\ pc' = "check_lengths"
    /\ UNCHANGED <<otherThanSsap, fast_call, first_score, fast_ssap_scores, new_ssap_scores,
                   dp_outcome, scores_stream, compare_log, comparison, first_result>>

\* scores_stream->get() << lines: a stream that refers to the ended block's
\* file_out_stream is used after its destruction, so the lines may be
\* written or lost and the program may go on or crash
WriteScores(lines, next_pc) ==
    IF options.scores_stream = "file_out_stream"
    THEN /\ scores_stream' \in {scores_stream \o lines, scores_stream}
         /\ pc' \in {next_pc, "crashed"}
    ELSE /\ scores_stream' = scores_stream \o lines
         /\ pc' = next_pc

\* run_ssap when a protein has no residues
RunSsapZeroLength ==
    /\ pc = "check_lengths"
    /\ proteins.length_a = 0 \/ proteins.length_b = 0
    /\ SetSlots(save_zero_scores(2, Slots))
    /\ WriteScores(<<save_zero_scores(2, Slots).line2>>, "exited")
    /\ UNCHANGED <<otherThanSsap, global_window, global_window_add, global_res_sim_cutoff,
                   global_run_counter, global_gap_penalty, global_align_pass,
                   global_doing_fast_ssap, global_res_score, global_score_run1,
                   global_score_run2, fast_call, first_score, fast_ssap_scores,
                   new_ssap_scores, proteins, options, dp_outcome, compare_log,
                   comparison, first_result>>

\* run_ssap calls align_proteins
RunSsapAlignProteins ==
    /\ pc = "check_lengths"
    /\ proteins.length_a /= 0 /\ proteins.length_b /= 0
    /\ pc' = "align_proteins"
    /\ UNCHANGED <<otherThanSsap, ssapGlobals, fast_call, first_score, fast_ssap_scores,
                   new_ssap_scores, proteins, options, dp_outcome, scores_stream,
                   compare_log, comparison, first_result>>

\* A slip: the fast SSAP is run whatever slow_ssap_only says
AlignProteinsBegin_whatever_slow_ssap_only ==
    /\ pc = "align_proteins"
    /\ global_res_score'   = FALSE
    /\ global_align_pass'  = FALSE
    /\ global_gap_penalty' = 5
    /\ global_window'      = Max(proteins.nsec_a, proteins.nsec_b)
    /\ fast_ssap_scores'   = DefaultScores
    /\ first_score'        = 0
    /\ compare_log'        = << >>
    /\ comparison'         = comparison + 1
    /\ IF proteins.nsec_a > 1 /\ proteins.nsec_b > 1
       THEN fast_call' = 1 /\ pc' = "fast_ssap"
       ELSE fast_call' = 0 /\ pc' = "slow_ssap"
    /\ UNCHANGED <<otherThanSsap, global_window_add, global_res_sim_cutoff, global_run_counter,
                   global_doing_fast_ssap, global_score_run1, global_score_run2,
                   global_ssap_score1, global_ssap_score2, global_ssap_line1,
                   global_ssap_line2, new_ssap_scores, proteins, options, dp_outcome,
                   scores_stream, first_result>>

\* align_proteins up to its first call of fast_ssap, or to the slow SSAP
AlignProteinsBegin ==
    /\ pc = "align_proteins"
    /\ global_res_score'   = FALSE
    /\ global_align_pass'  = FALSE
    /\ global_gap_penalty' = 5
    /\ global_window'      = Max(proteins.nsec_a, proteins.nsec_b)
    /\ fast_ssap_scores'   = DefaultScores
    /\ first_score'        = 0
    /\ compare_log'        = << >>
    /\ comparison'         = comparison + 1
    /\ IF ~options.slow_ssap_only /\ proteins.nsec_a > 1 /\ proteins.nsec_b > 1
       THEN fast_call' = 1 /\ pc' = "fast_ssap"
       ELSE fast_call' = 0 /\ pc' = "slow_ssap"
    /\ UNCHANGED <<otherThanSsap, global_window_add, global_res_sim_cutoff, global_run_counter,
                   global_doing_fast_ssap, global_score_run1, global_score_run2,
                   global_ssap_score1, global_ssap_score2, global_ssap_line1,
                   global_ssap_line2, new_ssap_scores, proteins, options, dp_outcome,
                   scores_stream, first_result>>

\* What a step that only calls compare() leaves alone
compareFrame ==
    <<otherThanSsap, global_window, global_window_add, global_res_sim_cutoff, global_run_counter,
      global_gap_penalty, global_doing_fast_ssap, fast_call, first_score,
      fast_ssap_scores, proteins, options, scores_stream, comparison, first_result>>

\* fast_ssap up to its secondary-structure comparison
FastSsapBegin ==
    /\ pc = "fast_ssap"
    /\ new_ssap_scores' = DefaultScores
    /\ global_run_counter' = global_run_counter + 1
    /\ pc' = "fast_sec_struc"
    /\ UNCHANGED <<otherThanSsap, global_window, global_window_add, global_res_sim_cutoff,
                   global_gap_penalty, global_align_pass, global_doing_fast_ssap,
                   global_res_score, global_score_run1, global_score_run2,
                   global_ssap_score1, global_ssap_score2, global_ssap_line1,
                   global_ssap_line2, fast_call, first_score, fast_ssap_scores,
                   proteins, options, dp_outcome, scores_stream, compare_log,
                   comparison, first_result>>

\* A slip: fast_ssap goes to its residue passes without the comparison of
\* the secondary structures
FastSsapSecStruc_skipped ==
    /\ pc = "fast_sec_struc"
    /\ pc' = "fast_set_variables"
    /\ UNCHANGED <<compareFrame, compareVars, global_align_pass>>

\* fast_ssap's one secondary-structure comparison
FastSsapSecStruc ==
    /\ pc = "fast_sec_struc"
    /\ compare("sec_struc", 1, "none")
    /\ pc' = "fast_set_variables"
    /\ UNCHANGED <<compareFrame, global_align_pass>>

\* fast_ssap sets the variables of its residue passes
FastSsapSetVariables ==
    /\ pc = "fast_set_variables"
    /\ global_align_pass'      = FALSE
    /\ global_gap_penalty'     = 50
    /\ global_window'          = Max(proteins.length_a, proteins.length_b)
                                 - Min(proteins.length_a, proteins.length_b)
                                 + global_window_add
    /\ global_doing_fast_ssap' = TRUE
    /\ pc' = "fast_pass_1"
    /\ UNCHANGED <<otherThanSsap, global_window_add, global_res_sim_cutoff, global_run_counter,
                   global_res_score, global_score_run1, global_score_run2,
                   global_ssap_score1, global_ssap_score2, global_ssap_line1,
                   global_ssap_line2, fast_call, first_score, fast_ssap_scores,
                   new_ssap_scores, proteins, options, dp_outcome, scores_stream,
                   compare_log, comparison, first_result>>

\* One turn of a loop over the residue passes 1 and 2
\* A slip: the second pass does not look at global_res_score
ResiduePass_unconditional(pass_ctr, next_pc, prm_previous_ss_alignment) ==
    /\ global_align_pass' = (pass_ctr > 1)
    /\ compare("residue", pass_ctr, prm_previous_ss_alignment)
    /\ pc' = next_pc
    /\ UNCHANGED compareFrame

ResiduePass(pass_ctr, next_pc, prm_previous_ss_alignment) ==
    /\ global_align_pass' = (pass_ctr > 1)
    /\ IF pass_ctr = 1 \/ (pass_ctr = 2 /\ global_res_score)
       THEN compare("residue", pass_ctr, prm_previous_ss_alignment)
       ELSE UNCHANGED compareVars
    /\ pc' = next_pc
    /\ UNCHANGED compareFrame

FastSsapPass1 == pc = "fast_pass_1" /\ ResiduePass(1, "fast_pass_2", "sec_struc_alignment")

FastSsapPass2 == pc = "fast_pass_2" /\ ResiduePass(2, "fast_return", "sec_struc_alignment")

\* What align_proteins sets before it calls fast_ssap again
RerunFastSsap(res_sim_cutoff, window_add, nth_call) ==
    /\ global_run_counter'    = global_run_counter - 1
    /\ global_res_score'      = FALSE
    /\ global_align_pass'     = FALSE
    /\ global_gap_penalty'    = 5
    /\ global_res_sim_cutoff' = res_sim_cutoff
    /\ global_window_add'     = window_add
    /\ global_window'         = Max(proteins.nsec_a, proteins.nsec_b)
    /\ fast_call' = nth_call
    /\ pc' = "fast_ssap"

NoRerunFastSsap ==
    /\ pc' = "slow_ssap"
    /\ UNCHANGED <<global_run_counter, global_res_score, global_align_pass,
                   global_gap_penalty, global_res_sim_cutoff, global_window_add,
                   global_window, fast_call>>

afterFastFrame ==
    <<otherThanSsap, global_doing_fast_ssap, global_score_run1, global_score_run2,
      global_ssap_score1, global_ssap_score2, global_ssap_line1, global_ssap_line2,
      new_ssap_scores, proteins, options, dp_outcome, scores_stream, compare_log,
      comparison, first_result>>

\* align_proteins after its first fast_ssap
AlignProteinsFirstScore ==
    /\ pc = "fast_return" /\ fast_call = 1
    /\ fast_ssap_scores' = new_ssap_scores
    /\ first_score' = new_ssap_scores.over_larger
    /\ IF /\ new_ssap_scores.over_larger < options.max_score_to_fast_ssap_rerun
          /\ ~has_clique_file(options)
       THEN RerunFastSsap(1000, 1000, 2)
       ELSE NoRerunFastSsap
    /\ UNCHANGED afterFastFrame

\* A slip: the original fast SSAP is not run again when the second score
\* only equals the first
AlignProteinsSecondScore_less ==
    /\ pc = "fast_return" /\ fast_call = 2
    /\ fast_ssap_scores' = new_ssap_scores
    /\ IF new_ssap_scores.over_larger < first_score
       THEN RerunFastSsap(150, 70, 3)
       ELSE NoRerunFastSsap
    /\ UNCHANGED <<afterFastFrame, first_score>>

\* align_proteins after the fast_ssap with the cutoffs removed
AlignProteinsSecondScore ==
    /\ pc = "fast_return" /\ fast_call = 2
    /\ fast_ssap_scores' = new_ssap_scores
    /\ IF new_ssap_scores.over_larger <= first_score
       THEN RerunFastSsap(150, 70, 3)
       ELSE NoRerunFastSsap
    /\ UNCHANGED <<afterFastFrame, first_score>>

\* align_proteins after the fast_ssap that reverts to the original settings
AlignProteinsRevertedScore ==
    /\ pc = "fast_return" /\ fast_call = 3
    /\ fast_ssap_scores' = new_ssap_scores
    /\ NoRerunFastSsap
    /\ UNCHANGED <<afterFastFrame, first_score>>

\* A slip: a fast score equal to the threshold counts as close
AlignProteinsSlowSsap_close_at_threshold ==
    /\ pc = "slow_ssap"
    /\ LET fast_ssap_result_is_close ==
               fast_ssap_scores.over_larger >= options.max_score_to_slow_ssap_rerun
           run_slow_ssap == ~has_clique_file(options) /\ ~fast_ssap_result_is_close
       IN  IF run_slow_ssap
           THEN /\ global_run_counter'     = global_run_counter + 1
                /\ global_res_score'       = FALSE
                /\ global_gap_penalty'     = 50
                /\ global_res_sim_cutoff'  = 150
                /\ global_window_add'      = 70
                /\ global_window'          = Max(proteins.length_a, proteins.length_b)
                                             - Min(proteins.length_a, proteins.length_b)
                                             + 70
                /\ global_doing_fast_ssap' = FALSE
                /\ pc' = "slow_pass_1"
           ELSE /\ pc' = "aligned"
                /\ UNCHANGED <<global_run_counter, global_res_score, global_gap_penalty,
                               global_res_sim_cutoff, global_window_add, global_window,
                               global_doing_fast_ssap>>
    /\ UNCHANGED <<otherThanSsap, global_align_pass, global_score_run1, global_score_run2,
                   global_ssap_score1, global_ssap_score2, global_ssap_line1,
                   global_ssap_line2, fast_call, first_score, fast_ssap_scores,
                   new_ssap_scores, proteins, options, dp_outcome, scores_stream,
                   compare_log, comparison, first_result>>

\* align_proteins decides on the slow SSAP and sets its variables
AlignProteinsSlowSsap ==
    /\ pc = "slow_ssap"
    /\ LET fast_ssap_result_is_close ==
               fast_ssap_scores.over_larger > options.max_score_to_slow_ssap_rerun
           run_slow_ssap == ~has_clique_file(options) /\ ~fast_ssap_result_is_close
       IN  IF run_slow_ssap
           THEN /\ global_run_counter'     = global_run_counter + 1
                /\ global_res_score'       = FALSE
                /\ global_gap_penalty'     = 50
                /\ global_res_sim_cutoff'  = 150
                /\ global_window_add'      = 70
                /\ global_window'          = Max(proteins.length_a, proteins.length_b)
                                             - Min(proteins.length_a, proteins.length_b)
                                             + 70
                /\ global_doing_fast_ssap' = FALSE
                /\ pc' = "slow_pass_1"
           ELSE /\ pc' = "aligned"
                /\ UNCHANGED <<global_run_counter, global_res_score, global_gap_penalty,
                               global_res_sim_cutoff, global_window_add, global_window,
                               global_doing_fast_ssap>>
    /\ UNCHANGED <<otherThanSsap, global_align_pass, global_score_run1, global_score_run2,
                   global_ssap_score1, global_ssap_score2, global_ssap_line1,
                   global_ssap_line2, fast_call, first_score, fast_ssap_scores,
                   new_ssap_scores, proteins, options, dp_outcome, scores_stream,
                   compare_log, comparison, first_result>>

SlowSsapPass1 == pc = "slow_pass_1" /\ ResiduePass(1, "slow_pass_2", "none")

SlowSsapPass2 == pc = "slow_pass_2" /\ ResiduePass(2, "aligned", "none")

\* The lines print_ssap_scores writes
print_ssap_scores(ssap_score_1, ssap_score_2, ssap_line1, ssap_line2, run_counter, write_all_scores) ==
    IF run_counter = 1 THEN <<ssap_line1>>
    ELSE IF run_counter = 2
    THEN IF write_all_scores THEN <<ssap_line1, ssap_line2>>
         ELSE IF ssap_score_2 >= ssap_score_1 THEN <<ssap_line2>> ELSE <<ssap_line1>>
    ELSE << >>

\* run_ssap prints the results once align_proteins has returned
RunSsapPrintScores ==
    /\ pc = "aligned"
    /\ WriteScores(print_ssap_scores(global_ssap_score1, global_ssap_score2,
                                     global_ssap_line1, global_ssap_line2,
                                     global_run_counter, options.write_all_scores),
                   "done")
    /\ UNCHANGED <<otherThanSsap, ssapGlobals, fast_call, first_score, fast_ssap_scores,
                   new_ssap_scores, proteins, options, dp_outcome, compare_log,
                   comparison, first_result>>

\* What a comparison leaves behind: the scores, the slots they are stored
\* in, and the parameters in force
Result ==
    [fast_ssap_scores |-> fast_ssap_scores,
     ssap_line1 |-> global_ssap_line1, ssap_line2 |-> global_ssap_line2,
     ssap_score1 |-> global_ssap_score1, ssap_score2 |-> global_ssap_score2,
     run_counter |-> global_run_counter,
     res_sim_cutoff |-> global_res_sim_cutoff, window_add |-> global_window_add,
     compare_log |-> compare_log]

\* align_proteins is called again, with the same proteins and options, as
\* soon as it has returned: nothing resets the globals in between
AlignProteinsAgain ==
    /\ pc = "aligned"
    /\ comparison = 1
    /\ first_result' = Result
    /\ pc' = "align_proteins"
    /\ UNCHANGED <<otherThanSsap, ssapGlobals, fast_call, first_score, fast_ssap_scores,
                   new_ssap_scores, proteins, options, dp_outcome, scores_stream,
                   compare_log, comparison>>

NextSsap ==
    \/ RunSsapBegin
    \/ RunSsapZeroLength
    \/ RunSsapAlignProteins
    \/ AlignProteinsBegin
    \/ FastSsapBegin
    \/ FastSsapSecStruc
    \/ FastSsapSetVariables
    \/ FastSsapPass1
    \/ FastSsapPass2
    \/ AlignProteinsFirstScore
    \/ AlignProteinsSecondScore
    \/ AlignProteinsRevertedScore
    \/ AlignProteinsSlowSsap
    \/ SlowSsapPass1
    \/ SlowSsapPass2
    \/ RunSsapPrintScores

NextRepeat ==
    \/ NextSsap
    \/ AlignProteinsAgain

(***************************************************************************)
(* alignment/alignment_refiner/alignment_refiner.cpp.                      *)
(*                                                                         *)
(* An alignment is its number of entries and its columns; the columns are  *)
(* one of MaxAlignment column lists, 0 being the list of no columns.  What *)
(* re-aligning a split makes of an alignment (the mappings, the scores     *)
(* from the view cache, the DP and build_alignment) is an input: the       *)
(* function step_outcome, fixed for a call of iterate, so that a step is   *)
(* a deterministic function of the alignment it is given.                  *)
(***************************************************************************)
NUM_ENTRIES_IN_PAIR_ALIGNMENT == 2

Alignments == [num_entries : NUM_ENTRIES_IN_PAIR_ALIGNMENT..MaxEntries, columns : 1..MaxAlignment]

\* alignment( NUM_ENTRIES_IN_PAIR_ALIGNMENT ): no columns
EmptyPairAlignment == [num_entries |-> NUM_ENTRIES_IN_PAIR_ALIGNMENT, columns |-> 0]

NoAlignment == [num_entries |-> 0, columns |-> 0]

StepOutcomes == [1..MaxAlignment -> [inserted : BOOLEAN, columns : 1..MaxAlignment]]

NoStepOutcome == [c \in 1..MaxAlignment |-> [inserted |-> FALSE, columns |-> c]]

AlignmentSplits == [num_entries : NUM_ENTRIES_IN_PAIR_ALIGNMENT..MaxEntries, first_half : 0..(MaxEntries - 1)]

\* The splits of an alignment's entries into one entry and the rest
get_standard_alignment_splits(aln) ==
    IF aln.num_entries = NUM_ENTRIES_IN_PAIR_ALIGNMENT
    THEN <<[num_entries |-> aln.num_entries, first_half |-> 0]>>
    ELSE [i \in 1..aln.num_entries |-> [num_entries |-> aln.num_entries, first_half |-> i - 1]]

\* A slip: only a split with too many entries is refused
split_mismatch_greater(aln, the_split) == the_split.num_entries > aln.num_entries

split_mismatch(aln, the_split) == the_split.num_entries /= aln.num_entries

\* iterate_step_for_alignment_split: whether it threw, and if not the
\* inserted_residues flag and the new alignment it built
iterate_step_for_alignment_split(aln, the_split) ==
    IF split_mismatch(aln, the_split)
    THEN [threw |-> TRUE, inserted |-> FALSE, aln |-> aln, built |-> FALSE]
    ELSE [threw |-> FALSE,
          inserted |-> step_outcome[aln.columns].inserted,
          aln |-> [aln EXCEPT !.columns = step_outcome[aln.columns].columns],
          built |-> TRUE]

RECURSIVE split_list_from(_, _, _, _)
\* The loop of iterate_step_for_alignment_split_list from the i-th split on
split_list_from(so_far, aln, splits, i) ==
    IF i > Len(splits) THEN so_far
    ELSE LET r == iterate_step_for_alignment_split(so_far.aln, splits[i])
         IN  IF r.threw
             THEN [so_far EXCEPT !.threw = TRUE, !.aln = aln, !.inserted = FALSE]
             ELSE split_list_from([threw |-> FALSE,
                                   inserted |-> r.inserted \/ so_far.inserted,
                                   aln |-> r.aln,
                                   built |-> TRUE],
                                  aln, splits, i + 1)

iterate_step_for_alignment_split_list(aln, splits) ==
    split_list_from([threw |-> FALSE, inserted |-> FALSE, aln |-> aln, built |-> FALSE],
                    aln, splits, 1)

\* A slip: only a protein list that is too short is refused
proteins_mismatch_less(aln, proteins_size) == proteins_size < aln.num_entries

proteins_mismatch(aln, proteins_size) == proteins_size /= aln.num_entries

iterate_step(aln, proteins_size) ==
    IF proteins_mismatch(aln, proteins_size)
    THEN [threw |-> TRUE, inserted |-> FALSE, aln |-> aln, built |-> FALSE]
    ELSE iterate_step_for_alignment_split_list(aln, get_standard_alignment_splits(aln))

\* A slip: && for ||
loop_condition_and(inserted, curr, prev) == inserted /\ curr /= prev

\* The condition of iterate's while loop
loop_condition(inserted, curr, prev) == inserted \/ curr /= prev

NoSplitCall == [fn |-> "none"]

InitRefiner ==
    /\ rpc = "idle"
    /\ arg_alignment = NoAlignment
    /\ arg_proteins = 0
    /\ step_outcome = NoStepOutcome
    /\ iter_ctr = 0
    /\ prev_alignment = NoAlignment
    /\ curr_alignment = NoAlignment
    /\ inserted_residues = FALSE
    /\ next_matches_prev = FALSE
    /\ new_alignments = FALSE
    /\ returned_alignment = NoAlignment
    /\ split_call = NoSplitCall
    /\ last_steps = << >>

\* iterate is called: its arguments and the locals it initialises
Iterate ==
    /\ rpc = "idle"
    /\ \E aln \in Alignments, proteins_size \in NUM_ENTRIES_IN_PAIR_ALIGNMENT..MaxEntries,
          outcome \in StepOutcomes :
          /\ arg_alignment' = aln
          /\ arg_proteins' = proteins_size
          /\ step_outcome' = outcome
          /\ curr_alignment' = aln
    /\ iter_ctr' = 0
    /\ prev_alignment' = EmptyPairAlignment
    /\ inserted_residues' = TRUE
    /\ rpc' = "while"
    /\ UNCHANGED <<otherThanRefiner, next_matches_prev, new_alignments,
                   returned_alignment, split_call, last_steps>>

\* One turn of iterate's loop
IterateStep ==
    /\ rpc = "while"
    /\ loop_condition(inserted_residues, curr_alignment, prev_alignment)
    /\ LET ins_res_and_next_aln == iterate_step(curr_alignment, arg_proteins)
           next_alignment == ins_res_and_next_aln.aln
       IN  IF ins_res_and_next_aln.threw
           THEN /\ rpc' = "threw"
                /\ new_alignments' = (new_alignments \/ ins_res_and_next_aln.built)
                /\ UNCHANGED <<iter_ctr, prev_alignment, curr_alignment, inserted_residues,
                               next_matches_prev, returned_alignment, last_steps>>
           ELSE /\ inserted_residues' = ins_res_and_next_aln.inserted
                /\ next_matches_prev' = (next_alignment = prev_alignment)
                /\ prev_alignment' = curr_alignment
                /\ curr_alignment' = next_alignment
                /\ new_alignments' = TRUE
                /\ last_steps' = (IF last_steps = << >> THEN << >>
                                  ELSE <<last_steps[Len(last_steps)]>>)
                                    \o <<[given |-> curr_alignment, gave |-> next_alignment,
                                          inserted_residues |-> ins_res_and_next_aln.inserted]>>
                /\ IF next_alignment = prev_alignment
                   THEN /\ rpc' = "returned"
                        /\ returned_alignment' = next_alignment
                        /\ UNCHANGED iter_ctr
                   ELSE /\ rpc' = "while"
                        /\ iter_ctr' = IF iter_ctr < MaxIterCtr THEN iter_ctr + 1 ELSE iter_ctr
                        /\ UNCHANGED returned_alignment
    /\ UNCHANGED <<otherThanRefiner, arg_alignment, arg_proteins, step_outcome, split_call>>

\* iterate leaves its loop by the loop's condition
IterateReturn ==
    /\ rpc = "while"
    /\ ~loop_condition(inserted_residues, curr_alignment, prev_alignment)
    /\ rpc' = "returned"
    /\ returned_alignment' = curr_alignment
    /\ UNCHANGED <<otherThanRefiner, arg_alignment, arg_proteins, step_outcome, iter_ctr,
                   prev_alignment, curr_alignment, inserted_residues, next_matches_prev,
                   new_alignments, split_call, last_steps>>

\* iterate_step_for_alignment_split on its own, on the alignment iterate was
\* given (any alignment) and any split
CallIterateStepForAlignmentSplit ==
    /\ rpc \in {"returned", "threw"}
    /\ split_call = NoSplitCall
    /\ \E the_split \in AlignmentSplits :
          split_call' = [fn |-> "iterate_step_for_alignment_split", alignment |-> arg_alignment,
                         alignment_split |-> the_split,
                         result |-> iterate_step_for_alignment_split(arg_alignment, the_split)]
    /\ UNCHANGED <<otherThanRefiner, rpc, arg_alignment, arg_proteins, step_outcome,
                   iter_ctr, prev_alignment, curr_alignment, inserted_residues,
                   next_matches_prev, new_alignments, returned_alignment, last_steps>>

NextRefiner ==
    \/ Iterate
    \/ IterateStep
    \/ IterateReturn
    \/ CallIterateStepForAlignmentSplit

(***************************************************************************)
(* resolve_hits/options/spec/should_skip_query.hpp.                        *)
(*                                                                         *)
(* The query_id_recorder is the set of the query IDs added to it; the      *)
(* filter query IDs of a crh_filter_spec, when there are any, are the only *)
(* ones kept.                                                              *)
(***************************************************************************)
QueryIds == 1..MaxQueryIds

\* size_opt: boost::none or a number
NoLimit == [is_set |-> FALSE, value |-> 0]

LimitsOfQueries ==
    {NoLimit} \cup { [is_set |-> TRUE, value |-> n] : n \in 0..MaxLimitQueries }

FilterSpecs == [filter_query_ids : SUBSET QueryIds, limit_queries : LimitsOfQueries]

NoFilterSpec == [filter_query_ids |-> {}, limit_queries |-> NoLimit]

\* query_id_recorder
seen_query_id(seen_queries, query_id) == query_id \in seen_queries

add_query_id(seen_queries, query_id) == seen_queries \cup {query_id}

size(seen_queries) == Cardinality(seen_queries)

should_skip_query_id(filter_query_ids, query_id) ==
    filter_query_ids /= {} /\ query_id \notin filter_query_ids

\* A slip: a new query is let through when the record is just at the limit
should_skip_query_by_num_above_limit(arg_limit_queries, arg_query_id, seen_queries) ==
    /\ arg_limit_queries.is_set
    /\ size(seen_queries) > arg_limit_queries.value
    /\ ~seen_query_id(seen_queries, arg_query_id)

should_skip_query_by_num(arg_limit_queries, arg_query_id, seen_queries) ==
    /\ arg_limit_queries.is_set
    /\ size(seen_queries) >= arg_limit_queries.value
    /\ ~seen_query_id(seen_queries, arg_query_id)

should_skip_query(filter_spec, arg_query_id, seen_queries) ==
    \/ should_skip_query_id(filter_spec.filter_query_ids, arg_query_id)
    \/ should_skip_query_by_num(filter_spec.limit_queries, arg_query_id, seen_queries)

update_seen_queries_if_relevant(filter_spec, arg_query_id, seen_queries) ==
    IF filter_spec.limit_queries.is_set
    THEN add_query_id(seen_queries, arg_query_id)
    ELSE seen_queries

\* What should_skip_query_and_update returns and the record it leaves
should_skip_query_and_update(filter_spec, arg_query_id, seen_queries) ==
    LET should_skip == should_skip_query(filter_spec, arg_query_id, seen_queries)
    IN  [should_skip  |-> should_skip,
         seen_queries |-> IF ~should_skip
                          THEN update_seen_queries_if_relevant(filter_spec, arg_query_id,
                                                               seen_queries)
                          ELSE seen_queries]

InitSkip ==
    /\ filter_pc = "options"
    /\ arg_filter_spec = NoFilterSpec
    /\ arg_seen_queries = {}
    /\ skip_calls = << >>

\* The filter spec the options give; the record starts empty
ReadFilterSpec ==
    /\ filter_pc = "options"
    /\ \E filter_spec \in FilterSpecs : arg_filter_spec' = filter_spec
    /\ filter_pc' = "queries"
    /\ UNCHANGED <<otherThanSkip, arg_seen_queries, skip_calls>>

\* One query ID of the input is put to should_skip_query_and_update
CallShouldSkipQueryAndUpdate ==
    /\ filter_pc = "queries"
    /\ Len(skip_calls) < MaxQueries
    /\ \E arg_query_id \in QueryIds :
          LET result == should_skip_query_and_update(arg_filter_spec, arg_query_id,
                                                     arg_seen_queries)
          IN  /\ arg_seen_queries' = result.seen_queries
              /\ skip_calls' =
                    Append(skip_calls,
                           [query_id    |-> arg_query_id,
                            should_skip |-> result.should_skip,
                            skip_by_num |-> should_skip_query_by_num(
                                                arg_filter_spec.limit_queries,
                                                arg_query_id, arg_seen_queries),
                            seen_before |-> arg_seen_queries])
    /\ UNCHANGED <<otherThanSkip, filter_pc, arg_filter_spec>>

NextSkip ==
    \/ ReadFilterSpec
    \/ CallShouldSkipQueryAndUpdate

(***************************************************************************)
(* The specifications.                                                     *)
(***************************************************************************)
Init == call = NoCall /\ InitSsap /\ InitRefiner /\ InitSelect /\ InitSkip

NextFn ==
    \/ CallNumComparableImpl
    \/ CallNumComparable
    \/ CallPairIsNotExcluded
    \/ CallPairIsNotExcludedQuerier
    \/ CallCalculateLogScore
    \/ CallResiduesHaveSimilarAreaAngleProps
    \/ CallReadCliqueFile

SpecFn == Init /\ [][NextFn]_vars

SpecSsap == Init /\ [][NextSsap]_vars

SpecRepeat == Init /\ [][NextRepeat]_vars

SpecRefiner == Init /\ [][NextRefiner]_vars

SpecAlign == Init /\ [][NextAlign]_vars

SpecSelect == Init /\ [][NextSelect]_vars

SpecSkip == Init /\ [][NextSkip]_vars

\* iterate is not held up: whenever it can take a step it does
SpecRefinerFair == SpecRefiner /\ WF_vars(NextRefiner)

(***************************************************************************)
(* Claims about entry_querier.cpp (checked under SpecFn).                  *)
(***************************************************************************)
\* The number of ordered index pairs (i, j) of a structure of the given length
\* that are more than num_excluded apart, by enumeration.
BruteForceNumComparable(num_excluded, length) ==
    Cardinality({ p \in (0..(length - 1)) \X (0..(length - 1)) :
                    Abs(p[1] - p[2]) > num_excluded })

\* C1: for every exclusion radius n and length L of the input sets,
\* _num_comparable_impl(n, L) is the number of ordered pairs (i, j) with
\* 0 <= i, j < L and |i - j| > n; it is 0 whenever L <= n + 1, and no size_t
\* operation in it wraps.
C1_NumComparableIsBruteForceCount ==
    call.fn = "_num_comparable_impl" =>
        /\ ~call.result.wrapped
        /\ call.result.value = BruteForceNumComparable(call.num_excluded, call.length)
        /\ (call.length <= call.num_excluded + 1 => call.result.value = 0)

\* The fixture value num_comparable(5, 15) = 90 of entry_querier_test.cpp.
C1_Witness ==
    /\ call.fn = "_num_comparable_impl"
    /\ call.num_excluded = 5
    /\ call.length = 15
    /\ call.result = SizeT(90)

\* C2: pair_is_not_excluded(n, i, j) gives the same answer with i and j
\* swapped and is true exactly when |i - j| > n; through the residue querier
\* that is |i - j| > 5, through the secondary-structure querier i /= j.
C2_PairIsNotExcludedSymmetric ==
    /\ call.fn = "pair_is_not_excluded" =>
        /\ call.result = call.swapped
        /\ ~call.result.wrapped
        /\ call.result.value = (Abs(call.index1 - call.index2) > call.num_excluded)
    /\ call.fn = "pair_is_not_excluded_querier" =>
        /\ call.result = call.swapped
        /\ ~call.result.wrapped
        /\ call.querier = "residue" =>
               call.result.value = (Abs(call.index1 - call.index2) > 5)
        /\ call.querier = "sec_struc" =>
               call.result.value = (call.index1 /= call.index2)

\* Indices given larger-first and exactly one more than the radius apart.
C2_Witness ==
    /\ call.fn = "pair_is_not_excluded"
    /\ call.index1 > call.index2
    /\ call.index1 - call.index2 = call.num_excluded + 1
    /\ call.num_excluded = 5
    /\ call.result.value = TRUE


(***************************************************************************)
(* Claims about run_ssap, align_proteins and compare.                      *)
(***************************************************************************)
Last(seq) == seq[Len(seq)]

ZeroLengthProtein == proteins.length_a = 0 \/ proteins.length_b = 0

\* C4: when either protein has zero length, run_ssap emits one zero-score
\* record and finishes the whole pairwise comparison (it exits) without
\* calling align_proteins or executing any compare pass.
C4_ZeroLengthEmitsOneZeroRecord ==
    (ZeroLengthProtein /\ pc \notin {"run_ssap", "check_lengths"}) =>
        /\ pc = "exited"
        /\ scores_stream = <<ZeroLine(10)>>
        /\ comparison = 0
        /\ compare_log = << >>

\* The line of the slot the run counter selects
SlotLine(run_counter, ssap_line1, ssap_line2) ==
    IF run_counter = 1 THEN ssap_line1
    ELSE IF run_counter = 2 THEN ssap_line2
    ELSE [kind |-> "no slot"]

SlotScore(run_counter, ssap_score1, ssap_score2) ==
    IF run_counter = 1 THEN ssap_score1
    ELSE IF run_counter = 2 THEN ssap_score2
    ELSE -1

\* A step in which a compare() of the given entry kinds ends with an
\* upper-level DP score of 0
CompareEndsWithZero(queriers) ==
    /\ Len(compare_log') = Len(compare_log) + 1
    /\ Last(compare_log').dp_zero
    /\ Last(compare_log').querier \in queriers

\* After such a step: no exception, the zero-score record in the slot the
\* run counter selects, and the caller at its next statement
ZeroScoresRecordedAndGoesOn ==
    /\ SlotLine(global_run_counter', global_ssap_line1', global_ssap_line2').kind = "zero"
    /\ SlotScore(global_run_counter', global_ssap_score1', global_ssap_score2') = 0
    /\ pc' \in {"fast_set_variables", "fast_pass_2", "fast_return", "slow_pass_2", "aligned"}

\* C5 (as stated): whenever a compare pass, of either entry kind, ends with
\* an upper-level DP score of 0, no exception is raised, the slot selected
\* by the run counter holds the zero-score record afterwards, and the
\* comparison goes on.
C5_AnyZeroScorePassRecorded ==
    [][CompareEndsWithZero(Queriers) => ZeroScoresRecordedAndGoesOn]_vars

\* What save_zero_scores does with the run counter it is given
ZeroScoresSaved ==
    IF global_run_counter' = 1
    THEN /\ global_ssap_line1' = ZeroLine(9) /\ global_ssap_score1' = 0
         /\ UNCHANGED <<global_ssap_line2, global_ssap_score2>>
    ELSE IF global_run_counter' = 2
    THEN /\ global_ssap_line2' = ZeroLine(10) /\ global_ssap_score2' = 0
         /\ UNCHANGED <<global_ssap_line1, global_ssap_score1>>
    ELSE UNCHANGED <<global_ssap_line1, global_ssap_line2,
                     global_ssap_score1, global_ssap_score2>>

\* C5 (amended): whenever a residue compare pass ends with an upper-level DP
\* score of 0, no exception is raised, the zero-score record is stored in
\* the slot the run counter selects (slot 1 for 1, slot 2 for 2, none for
\* any other value), global_res_score is false and the comparison goes on; a
\* secondary-structure pass that ends with score 0 records nothing.
C5_ResidueZeroScorePassRecorded ==
    [][/\ CompareEndsWithZero({"residue"}) =>
            /\ ZeroScoresSaved
            /\ ~global_res_score'
            /\ pc' \in {"fast_pass_2", "fast_return", "slow_pass_2", "aligned"}
       /\ CompareEndsWithZero({"sec_struc"}) =>
            /\ UNCHANGED <<global_ssap_line1, global_ssap_line2,
                           global_ssap_score1, global_ssap_score2>>
            /\ pc' = "fast_set_variables"]_vars

\* A comparison that reached its normal end after the slow SSAP's first
\* residue pass ended with score 0, the zero scores standing in slot 2
C5_Witness ==
    /\ pc = "done"
    /\ compare_log /= << >>
    /\ Last(compare_log).querier = "residue"
    /\ Last(compare_log).pass = 1
    /\ Last(compare_log).run_counter = 2
    /\ Last(compare_log).dp_zero
    /\ global_ssap_line2 = ZeroLine(10)
    /\ global_ssap_score2 = 0

\* C9: a second align_proteins in the same process, on the same proteins
\* with the same options, leaves the same result (scores, the slots they are
\* stored in, the run counter, the cutoff and window_add in force) as the
\* first one, which ran from freshly reset state.
C9_SameResultAfterEarlierComparison ==
    (comparison = 2 /\ pc = "aligned") => Result = first_result

(***************************************************************************)
(* Claims about alignment_refiner.                                         *)
(***************************************************************************)
\* C6: alignment_refiner raises an error, before any new alignment is
\* produced, when the protein list's size differs from the alignment's
\* number of entries (iterate then ends by the exception, having completed
\* no step and returned nothing), and when an alignment split's entry count
\* differs from the alignment's; with matching counts it raises none.
C6_MismatchedCountsRaiseBeforeAnyAlignment ==
    /\ (rpc /= "idle" /\ arg_proteins /= arg_alignment.num_entries) =>
          /\ rpc \in {"while", "threw"}
          /\ ~new_alignments
          /\ returned_alignment = NoAlignment
          /\ curr_alignment = arg_alignment
          /\ prev_alignment = EmptyPairAlignment
    /\ (rpc /= "idle" /\ arg_proteins = arg_alignment.num_entries) => rpc /= "threw"
    /\ split_call /= NoSplitCall =>
          /\ split_call.result.threw
                <=> (split_call.alignment_split.num_entries /= split_call.alignment.num_entries)
          /\ split_call.result.threw => ~split_call.result.built
          /\ ~split_call.result.threw => split_call.result.built

\* iterate has thrown on a protein list of the wrong size, and a split of the
\* wrong entry count has been refused
C6_Witness ==
    /\ rpc = "threw"
    /\ arg_proteins /= arg_alignment.num_entries
    /\ split_call /= NoSplitCall
    /\ split_call.result.threw
    /\ split_call.alignment_split.num_entries /= split_call.alignment.num_entries

\* C7: iterate performs at most a fixed number of refinement iterations for
\* any input alignment: once in its loop it always comes to return (or
\* throw) instead of looping indefinitely.
C7_IterateAlwaysEnds ==
    (rpc = "while") ~> (rpc \in {"returned", "threw"})

\* One refinement step on an alignment, with iterate's proteins
one_more_step(aln) == iterate_step(aln, arg_proteins).aln

\* C8 (as stated): if iterate returns alignment X, one more refinement step
\* on X yields an alignment equal to X.
C8_OneMoreStepYieldsReturned ==
    rpc = "returned" => one_more_step(returned_alignment) = returned_alignment

\* C8 (amended): if iterate returns X because a step inserted no residues
\* and gave back its input, one more step on X yields X; if it returns X
\* because a step's output X equalled the input of the step before (a
\* period-2 cycle), one more step on X yields the other alignment of the
\* cycle (the loop's previous alignment) and a second step yields X again.
C8_ReturnedIsFixedPointOrPeriodTwo ==
    rpc = "returned" =>
        IF next_matches_prev
        THEN /\ one_more_step(returned_alignment) = prev_alignment
             /\ one_more_step(prev_alignment) = returned_alignment
        ELSE one_more_step(returned_alignment) = returned_alignment

\* iterate has returned out of a period-2 cycle of two different alignments
C8_Witness ==
    /\ rpc = "returned"
    /\ next_matches_prev
    /\ returned_alignment /= prev_alignment
    /\ one_more_step(returned_alignment) = prev_alignment

(***************************************************************************)
(* Claims about calculate_log_score.                                       *)
(***************************************************************************)
\* C10: for either entry kind and every alignment whose present positions
\* are strictly increasing and within the structures' lengths, the number
\* of comparable column pairs counted by calculate_log_score is at most
\* num_comparable(querier, min(length_a, length_b)).
C10_CountAtMostNumComparableOverMin ==
    call.fn = "calculate_log_score" =>
        /\ ~call.num_comparable_over_min.wrapped
        /\ call.count <= call.num_comparable_over_min.value

(***************************************************************************)
(* Claims about the DP aligner.                                            *)
(***************************************************************************)
\* The positions of one entry in the columns that have one, in column order
present_positions_a(aln) == SelectSeq([k \in 1..Len(aln) |-> aln[k].a], LAMBDA posn : posn /= 0)

present_positions_b(aln) == SelectSeq([k \in 1..Len(aln) |-> aln[k].b], LAMBDA posn : posn /= 0)

strictly_increasing(posns) == \A k \in 1..(Len(posns) - 1) : posns[k] < posns[k + 1]

\* C3: in every alignment the DP aligner returns, to compare (upper level)
\* and to compare_upper_cell (lower level), the present positions of each of
\* the two entries are strictly increasing in column order, whatever the
\* score source, the gap penalty and the window; every position of either
\* entry appears, and every column holds a position.
C3_AlignedPositionsStrictlyIncrease ==
    call.fn \in {"compare", "compare_upper_cell"} =>
        /\ strictly_increasing(present_positions_a(call.result.alignment))
        /\ strictly_increasing(present_positions_b(call.result.alignment))
        /\ Len(present_positions_a(call.result.alignment)) = call.length_a
        /\ Len(present_positions_b(call.result.alignment)) = call.length_b
        /\ \A k \in 1..Len(call.result.alignment) :
              call.result.alignment[k].a /= 0 \/ call.result.alignment[k].b /= 0

\* A lower-level alignment with two aligned pairs and a gap in each entry
C3_Witness ==
    /\ call.fn = "compare_upper_cell"
    /\ \E k1, k2, k3, k4 \in 1..Len(call.result.alignment) :
          /\ k1 < k2
          /\ has_both_positions_of_index(call.result.alignment, k1)
          /\ has_both_positions_of_index(call.result.alignment, k2)
          /\ call.result.alignment[k3].a = 0
          /\ call.result.alignment[k4].b = 0


(***************************************************************************)
(* Claims about residues_have_similar_area_angle_props.                    *)
(***************************************************************************)
\* The whole number of degrees nearest to a difference of half_degrees half
\* degrees, the larger one when two are equally near
WholeDegrees(half_degrees) == CHOOSE n \in 0..half_degrees : 2 * n - half_degrees \in {0, 1}

\* Twice the quantity the claim compares with the cutoff
TwiceAreaAngleDistance(residue_i, residue_j) ==
    2 * (Abs(residue_i.accessi - residue_j.accessi) + residue_i.access + residue_j.access)
    + WholeDegrees(Abs(residue_i.phi_angle - residue_j.phi_angle))
    + WholeDegrees(Abs(residue_i.psi_angle - residue_j.psi_angle))

\* C11: residues_have_similar_area_angle_props(i, j) is true exactly when
\* |buried_i - buried_j| + (access_i + access_j) + (|phi_i - phi_j| +
\* |psi_i - psi_j|) / 2, the angle differences in whole degrees, is strictly
\* less than the cutoff in force; the accessibilities enter as their sum.
\* (The sum being whole, halving the angle term exactly or with the
\* remainder dropped gives the same comparison; both are stated.)
C11_SimilarExactlyWhenSumBelowCutoff ==
    call.fn = "residues_have_similar_area_angle_props" =>
        /\ call.result <=> (TwiceAreaAngleDistance(call.residue_i, call.residue_j) < 2 * call.res_sim_cutoff)
        /\ call.result <=> (TwiceAreaAngleDistance(call.residue_i, call.residue_j) \div 2 < call.res_sim_cutoff)

\* Two equally accessible residues that are not similar under the default
\* cutoff: only the sum of the accessibilities keeps them apart
C11_Witness ==
    /\ call.fn = "residues_have_similar_area_angle_props"
    /\ call.res_sim_cutoff = 150
    /\ call.residue_i.access = call.residue_j.access
    /\ call.residue_i.phi_angle /= call.residue_j.phi_angle
    /\ ~call.result


(***************************************************************************)
(* Claims about the order of the passes.  compare_log holds the compare()  *)
(* calls in the order they were made.                                      *)
(***************************************************************************)
IsResiduePass(k, pass) ==
    /\ k \in 1..Len(compare_log)
    /\ compare_log[k].querier = "residue"
    /\ compare_log[k].pass = pass

\* The residue pass 1 logged at k is the last compare() so far and its
\* caller has yet to come to its second pass
SecondPassPending(k) == k = Len(compare_log) /\ pc \in {"fast_pass_2", "slow_pass_2"}

\* C12: in fast SSAP and in slow SSAP alike, the residue pass-2 comparison
\* is executed if and only if the residue pass-1 comparison of the same run
\* finished with a non-zero upper-level DP score: a pass 2 directly follows
\* a pass 1 that was not zero, and a pass 1 that was not zero is directly
\* followed by a pass 2 once its caller has moved on.
C12_SecondPassIffFirstPassNonZero ==
    \A k \in 1..Len(compare_log) :
        /\ IsResiduePass(k, 2) =>
              /\ IsResiduePass(k - 1, 1)
              /\ ~compare_log[k - 1].dp_zero
              /\ compare_log[k - 1].doing_fast_ssap = compare_log[k].doing_fast_ssap
        /\ (IsResiduePass(k, 1) /\ ~compare_log[k].dp_zero) =>
              SecondPassPending(k) \/ IsResiduePass(k + 1, 2)
        /\ (IsResiduePass(k, 1) /\ compare_log[k].dp_zero) => ~IsResiduePass(k + 1, 2)

\* A comparison in which the fast pass 1 was zero and got no pass 2 and the
\* slow pass 1 was not zero and got one
C12_Witness ==
    /\ pc = "aligned"
    /\ \E k1, k2 \in 1..Len(compare_log) :
          /\ IsResiduePass(k1, 1) /\ compare_log[k1].doing_fast_ssap
          /\ compare_log[k1].dp_zero /\ ~IsResiduePass(k1 + 1, 2)
          /\ IsResiduePass(k2, 1) /\ ~compare_log[k2].doing_fast_ssap
          /\ ~compare_log[k2].dp_zero /\ IsResiduePass(k2 + 1, 2)


IsSecStrucPass(k, pass) ==
    /\ k \in 1..Len(compare_log)
    /\ compare_log[k].querier = "sec_struc"
    /\ compare_log[k].pass = pass

IsFastResiduePass(k, pass) == IsResiduePass(k, pass) /\ compare_log[k].doing_fast_ssap

SecStrucCompared == \E k \in 1..Len(compare_log) : compare_log[k].querier = "sec_struc"

ResiduesCompared == \E k \in 1..Len(compare_log) : compare_log[k].querier = "residue"

\* C14 as it was claimed: the secondary-structure DP comparison is
\* executed only when slow-SSAP-only is off and no clique file is supplied;
\* when either holds, the residue comparison runs without any
\* secondary-structure compare pass having been executed in that comparison.
C14_SecStrucOnlyWithoutSlowOnlyAndClique ==
    /\ SecStrucCompared => ~options.slow_ssap_only /\ ~has_clique_file(options)
    /\ (options.slow_ssap_only \/ has_clique_file(options)) /\ ResiduesCompared => ~SecStrucCompared

\* C14, amended: the secondary-structure DP comparison is executed only
\* when slow-SSAP-only is off; when slow-SSAP-only is on, a residue
\* comparison that runs does so without any secondary-structure compare
\* pass having been executed in that comparison.  (A clique file does not
\* stop the secondary-structure comparison.)
C14_SecStrucOnlyWithoutSlowOnly ==
    /\ SecStrucCompared => ~options.slow_ssap_only
    /\ options.slow_ssap_only /\ ResiduesCompared => ~SecStrucCompared

\* A finished comparison under slow-SSAP-only whose residues were compared
C14_Witness ==
    /\ pc = "aligned"
    /\ options.slow_ssap_only
    /\ ResiduesCompared
    /\ proteins.nsec_a > 1 /\ proteins.nsec_b > 1


(***************************************************************************)
(* Claims about the re-run of the fast SSAP.  A fast_ssap run begins with  *)
(* its compare() of the secondary structures.                              *)
(***************************************************************************)
SecStrucCompares == {k \in 1..Len(compare_log) : compare_log[k].querier = "sec_struc"}

\* The compare() that begins the r-th fast_ssap run of this comparison
FastRunStart(r) == CHOOSE k \in SecStrucCompares : Cardinality({j \in SecStrucCompares : j <= k}) = r

\* The last compare() of the r-th fast_ssap run, all fast runs being over
FastRunEnd(r) == IF Cardinality(SecStrucCompares) > r THEN FastRunStart(r + 1) - 1 ELSE Len(compare_log)

\* What the r-th fast_ssap run left: the scores it returned, the score line
\* and score of the fast slot, and the cutoff and window_add it ran under
FastRunResult(r) ==
    LET last_compare == compare_log[FastRunEnd(r)]
    IN  [scores |-> last_compare.scores,
         line1 |-> last_compare.slots.line1, score1 |-> last_compare.slots.score1,
         res_sim_cutoff |-> last_compare.res_sim_cutoff,
         window_add |-> last_compare.window_add]

\* The fast result align_proteins goes on with
FastResultKept ==
    [scores |-> fast_ssap_scores,
     line1 |-> global_ssap_line1, score1 |-> global_ssap_score1,
     res_sim_cutoff |-> global_res_sim_cutoff,
     window_add |-> global_window_add]

\* The fast SSAP was run again with the cutoffs removed and align_proteins
\* has come to its decision on the slow SSAP
FastSsapWasRerun == pc = "slow_ssap" /\ fast_call >= 2

\* C15: when the first fast-SSAP over-larger score is below the re-run
\* threshold and the fast pass is run again with relaxed parameters (cutoff
\* 1000, window_add 1000), the fast result finally kept (returned scores,
\* score line in the fast slot, cutoff and window_add in force) is that of
\* whichever of the two runs scored higher, and when the relaxed run is not
\* strictly higher it is identical to the result of the original first run.
C15_RerunKeepsTheHigherScoringRun ==
    FastSsapWasRerun =>
        /\ FastRunResult(1).scores.over_larger < options.max_score_to_fast_ssap_rerun
        /\ FastRunResult(2).res_sim_cutoff = 1000 /\ FastRunResult(2).window_add = 1000
        /\ IF FastRunResult(2).scores.over_larger > FastRunResult(1).scores.over_larger
           THEN FastResultKept = FastRunResult(2)
           ELSE FastResultKept = FastRunResult(1)

\* The relaxed run scored no higher than a first run whose residue passes
\* both scored, and the original run was restored
C15_Witness ==
    /\ FastSsapWasRerun
    /\ fast_call = 3
    /\ FastRunEnd(1) = 3
    /\ FastRunResult(1).line1 = ScoreLine(0)
    /\ FastRunResult(2).line1 /= FastRunResult(1).line1
    /\ FastResultKept = FastRunResult(1)


(***************************************************************************)
(* Claims about the slow SSAP.                                             *)
(***************************************************************************)
IsSlowResiduePass(k) ==
    /\ k \in 1..Len(compare_log)
    /\ compare_log[k].querier = "residue"
    /\ ~compare_log[k].doing_fast_ssap

SlowSsapCompared == \E k \in 1..Len(compare_log) : IsSlowResiduePass(k)

SlowSsapIsDue ==
    /\ ~has_clique_file(options)
    /\ fast_ssap_scores.over_larger <= options.max_score_to_slow_ssap_rerun

\* C16: the slow SSAP residue comparison is executed if and only if no
\* clique file is supplied and the fast SSAP over-larger score does not
\* exceed the slow-rerun threshold; when it runs it uses no
\* secondary-structure alignment for masking and a window equal to the
\* length difference of the two proteins plus window_add (70).
C16_SlowSsapIffNoCliqueAndFastNotClose ==
    /\ SlowSsapCompared => SlowSsapIsDue
    /\ pc = "aligned" /\ SlowSsapIsDue => SlowSsapCompared
    /\ \A k \in 1..Len(compare_log) :
          IsSlowResiduePass(k) =>
              /\ compare_log[k].ss_alignment = "none"
              /\ compare_log[k].window_add = 70
              /\ compare_log[k].window = Abs(proteins.length_a - proteins.length_b) + 70

\* The slow SSAP ran, on proteins of different lengths, after a fast SSAP
\* whose re-run with the cutoffs removed was kept
C16_Witness ==
    /\ pc = "aligned"
    /\ SlowSsapCompared
    /\ proteins.length_a /= proteins.length_b
    /\ fast_call = 2


(***************************************************************************)
(* Claims about select_pairs, update_best_pair_selections and              *)
(* populate_upper_score_matrix.                                            *)
(***************************************************************************)
\* The pairs offered so far that are not in the selection list
AbsentPairs == {offered[k] : k \in 1..Len(offered)} \ {selected_pairs[k] : k \in 1..Len(selected_pairs)}

\* C17: after any sequence of update_best_pair_selections calls with limit
\* K, the selection list holds exactly min(K, number of pairs offered)
\* pairs in ascending score order, and no pair that was offered but is
\* absent from the list has a score strictly greater than the score of a
\* pair in the list.
C17_SelectionsAreTheBestOffered ==
    select_call.querier = "residue" /\ select_call.pass = 2 =>
        /\ Len(selected_pairs) = Min(NUM_SELECTIONS_TO_SAVE, Len(offered))
        /\ \A k \in 1..(Len(selected_pairs) - 1) : selected_pairs[k].score <= selected_pairs[k + 1].score
        /\ \A k \in 1..Len(selected_pairs) :
              /\ \E j \in 1..Len(offered) : offered[j] = selected_pairs[k]
              /\ \A absent \in AbsentPairs : absent.score <= selected_pairs[k].score

\* More pairs were offered than are kept, and a pair that was offered
\* first, and so was in the list, has been removed for a better one
C17_Witness ==
    /\ select_call.querier = "residue" /\ select_call.pass = 2
    /\ Len(offered) > NUM_SELECTIONS_TO_SAVE
    /\ Len(selected_pairs) = NUM_SELECTIONS_TO_SAVE
    /\ offered[1] \in AbsentPairs
    /\ offered[1].score < selected_pairs[1].score


ResidueAlignPass == select_call.querier = "residue" /\ select_call.align_pass

SelectedCells == {<<selected_pairs[k].index_a, selected_pairs[k].index_b>> : k \in 1..Len(selected_pairs)}

\* populate_upper_score_matrix is over, whichever way
PopulateIsOver == spc \in {"populated", "crashed"}

\* C18: on a residue align pass, populate_upper_score_matrix calls
\* compare_upper_cell exactly once for each (a, b) pair in the top-K list
\* built by select_pairs in that pass and for no other pair, including when
\* fewer than NUM_SELECTIONS_TO_SAVE pairs were available; every pair it
\* passes is a valid 1-based (a, b) position inside the window.
C18_UpperCellCalledOncePerSelection ==
    ResidueAlignPass =>
        /\ \A k \in 1..Len(upper_cell_calls) :
              /\ upper_cell_calls[k] \in SelectedCells
              /\ \A j \in 1..Len(upper_cell_calls) : upper_cell_calls[j] = upper_cell_calls[k] => j = k
              /\ upper_cell_calls[k][1] \in 1..select_call.length_a
              /\ upper_cell_calls[k][2] \in 1..select_call.length_b
              /\ in_window(select_call.window, upper_cell_calls[k][1], upper_cell_calls[k][2])
        /\ PopulateIsOver => \A cell \in SelectedCells : \E k \in 1..Len(upper_cell_calls) : upper_cell_calls[k] = cell

\* The same, for the passes in which select_pairs had at least
\* NUM_SELECTIONS_TO_SAVE pairs to choose from
UpperCellCalledOncePerSelectionOfEnough ==
    ResidueAlignPass => (Len(SelectCells) >= NUM_SELECTIONS_TO_SAVE => C18_UpperCellCalledOncePerSelection)


\* The pairs (a, b) inside the window of the compare() under way
PairsInWindow ==
    {<<a, b>> \in (1..select_call.length_a) \X (1..select_call.length_b) : in_window(select_call.window, a, b)}

\* What are_similar__offset_1 said of the pair (a, b) when select_pairs
\* asked
AreSimilar(a, b) == \E k \in 1..Len(offered) : offered[k] = [index_a |-> a, index_b |-> b, similar |-> TRUE]

\* select_pairs has returned from a first pass
FirstPassSelected == select_call.querier /= "none" /\ select_call.pass = 1 /\ spc /= "select_pairs"

\* C20: after a pass-1 select_pairs, for every (a, b) inside the window
\* lower_mask[b][a] and upper_ss_mask[b][a] both equal are_similar(a, b),
\* and select_pairs has written no cell outside the window.
C20_FirstPassMasksAreSimilarity ==
    FirstPassSelected =>
        /\ \A pair \in PairsInWindow :
              /\ Cardinality({k \in 1..Len(offered) : offered[k].index_a = pair[1] /\ offered[k].index_b = pair[2]}) = 1
              /\ <<pair[2], pair[1]>> \in global_lower_mask_matrix <=> AreSimilar(pair[1], pair[2])
              /\ <<pair[2], pair[1]>> \in global_upper_ss_mask_matrix <=> AreSimilar(pair[1], pair[2])
        /\ \A cell \in select_writes : <<cell[2], cell[1]>> \in PairsInWindow

\* A first pass over residues whose window leaves cells out, on a lower
\* mask that set_mask_matrix had filled: a pair in the window is not
\* similar and a cell outside the window keeps its value
C20_Witness ==
    /\ FirstPassSelected
    /\ select_call.querier = "residue"
    /\ \E pair \in PairsInWindow : ~AreSimilar(pair[1], pair[2])
    /\ \E pair \in PairsInWindow : AreSimilar(pair[1], pair[2])
    /\ \E cell \in global_lower_mask_matrix : <<cell[2], cell[1]>> \notin PairsInWindow


\* C19: compare_upper_cell leaves the upper score matrix as it was when it
\* returns ZERO or NON_ZERO_BELOW_THRESHOLD (which only a residue comparison
\* returns); when it returns SCORED, every cell of the matrix has grown by
\* the distance scores of the columns of the lower-level alignment that have
\* both positions and whose (b', windowed a') is that cell, so a cell no such
\* column names is unchanged.
BothPositionColumns == {k \in 1..Len(call.result.alignment) : call.result.alignment[k].a /= 0 /\ call.result.alignment[k].b /= 0}

WindowedCellOfColumn(k) ==
    <<call.result.alignment[k].b,
      call.result.alignment[k].a - Max(1, call.result.alignment[k].b - call.window) + 1>>

RECURSIVE AddendsOfColumns(_)
AddendsOfColumns(columns) ==
    IF columns = {} THEN 0
    ELSE LET k == CHOOSE c \in columns : TRUE
         IN  call.distance_score[<<call.result.alignment[k].a, call.result.alignment[k].b>>]
                 + AddendsOfColumns(columns \ {k})

C19_UpperMatrixChangesOnlyWhenScored ==
    call.fn = "compare_upper_cell" =>
        /\ call.cell_result \in {"ZERO", "NON_ZERO_BELOW_THRESHOLD", "SCORED"}
        /\ call.cell_result = "NON_ZERO_BELOW_THRESHOLD" => call.querier = "residue"
        /\ call.cell_result /= "SCORED" => call.upper_after = call.upper_before
        /\ call.cell_result = "SCORED" =>
              /\ DOMAIN call.upper_after = DOMAIN call.upper_before
              /\ \A cell \in DOMAIN call.upper_before :
                    call.upper_after[cell] = call.upper_before[cell]
                        + AddendsOfColumns({k \in BothPositionColumns : WindowedCellOfColumn(k) = cell})

C19_Witness ==
    /\ call.fn = "compare_upper_cell"
    /\ call.cell_result = "SCORED"
    /\ call.querier = "residue"
    /\ call.normalisation > 1
    /\ \E k \in 1..Len(call.result.alignment) : k \notin BothPositionColumns
    /\ \E k \in BothPositionColumns :
          /\ WindowedCellOfColumn(k)[2] /= call.result.alignment[k].a
          /\ call.distance_score[<<call.result.alignment[k].a, call.result.alignment[k].b>>] > 0
    /\ call.upper_after /= call.upper_before


\* C21: when set_mask_matrix has returned (pass 1 of the residues), every
\* true cell of the upper residue mask is the windowed cell of a pair of the
\* window that this call selected (similar and, in a fast SSAP, guided); the
\* upper secondary structure mask holds no true value and the lower mask
\* only those the clique of this call gave, so that nothing an earlier pass,
\* run or window left is still there.
SetMaskMatrixReturned ==
    /\ spc = "select_pairs"
    /\ cell_ctr = 1
    /\ select_call.querier = "residue"
    /\ select_call.pass = 1

SelectedBySetMaskMatrix ==
    {c \in (1..select_call.length_b) \X (1..select_call.length_a) :
       /\ Abs(c[2] - c[1]) <= select_call.window
       /\ c \in select_call.similar
       /\ select_call.mode.doing_fast_ssap => c \in select_call.mode.guided}

SelectionStepIsOver == spc \in {"populate", "populated", "crashed"} /\ select_call.querier = "residue"

PairsSelectedForThePass ==
    IF select_call.pass = 1 THEN Cardinality(global_upper_res_mask_matrix) ELSE Len(selected_pairs)

C22_FracSelectedIsSelectedOverConsidered ==
    SelectionStepIsOver =>
        /\ global_frac_selected.den = Cardinality(PairsInWindow)
        /\ global_frac_selected.num = PairsSelectedForThePass
        /\ 0 <= global_frac_selected.num
        /\ global_frac_selected.num <= global_frac_selected.den

\* The same when the window holds no fewer pairs than are kept as best
FracSelectedIsSelectedOverConsideredOfEnough ==
    SelectionStepIsOver =>
        (Len(SelectCells) >= NUM_SELECTIONS_TO_SAVE => C22_FracSelectedIsSelectedOverConsidered)


\* C23: in every residue pass, the align pass included, the normaliser of
\* the lower scores is frac_selected * sqrt( 200 * the smaller of the two
\* proteins' numbers of residues ).
C23_NormaliserLengthIsTheSmallerProtein ==
    SelectionStepIsOver =>
        /\ normalisation.frac_selected = global_frac_selected
        /\ normalisation.radicand = 200 * Min(select_call.length_a, select_call.length_b)

\* The same of the passes that are not align passes
NormaliserLengthIsTheSmallerProteinBeforeAlignPass ==
    (SelectionStepIsOver /\ ~select_call.align_pass) => C23_NormaliserLengthIsTheSmallerProtein


\* C24: the total of calculate_log_score is the larger of 0 and the sum,
\* over the columns with both positions, of the column's score in
\* final_score_matrix, less the gap penalty for every charged column; a
\* column with both positions is charged exactly when it is not the first of
\* them and the column before it does not have both positions one below its
\* own in both proteins.
ColumnsWithBothPositions == {k \in 1..Len(call.alignment) : call.alignment[k].a /= 0 /\ call.alignment[k].b /= 0}

ChargedColumns ==
    {k \in ColumnsWithBothPositions :
       /\ \E earlier \in ColumnsWithBothPositions : earlier < k
       /\ ~(/\ (k - 1) \in ColumnsWithBothPositions
            /\ call.alignment[k].a = call.alignment[k - 1].a + 1
            /\ call.alignment[k].b = call.alignment[k - 1].b + 1)}

RECURSIVE SumOfColumnScores(_)
SumOfColumnScores(columns) ==
    IF columns = {} THEN 0
    ELSE LET k == CHOOSE c \in columns : TRUE
         IN  call.final_score_matrix[<<call.alignment[k].b, call.alignment[k].a>>]
                 + SumOfColumnScores(columns \ {k})

C24_TotalIsScoresLessGapsNotBelowZero ==
    call.fn = "calculate_log_score" =>
        call.maxscore = Max(0, SumOfColumnScores(ColumnsWithBothPositions)
                                   - call.gap_penalty * Cardinality(ChargedColumns))

C24_Witness ==
    /\ call.fn = "calculate_log_score"
    /\ call.maxscore > 0
    /\ Cardinality(ChargedColumns) >= 1
    /\ \E k \in ColumnsWithBothPositions : k > 1 /\ k \notin ChargedColumns /\ (k - 1) \in ColumnsWithBothPositions
    /\ 1 \notin ColumnsWithBothPositions


\* C25: each of the three log scores of calculate_log_score is set exactly
\* when the total is not 0 and the number the score divides by (the count
\* of compared pairs, num_comparable of the smaller length, num_comparable
\* of the larger length) is above 0; a score that is set was divided by
\* that number, so nothing is divided by 0.
LogScoreIsSetWhenDue(score, divisor) ==
    /\ score.is_set <=> (call.maxscore /= 0 /\ divisor > 0)
    /\ score.is_set => score.divisor = divisor /\ score.divisor /= 0

C25_LogScoresSetIffTotalAndDivisorNonZero ==
    call.fn = "calculate_log_score" =>
        /\ LogScoreIsSetWhenDue(call.ssap_score_over_compared, call.count)
        /\ LogScoreIsSetWhenDue(call.ssap_score_over_smaller, call.num_comparable_over_min.value)
        /\ LogScoreIsSetWhenDue(call.ssap_score_over_larger, call.num_comparable_over_max.value)
        /\ ~call.num_comparable_over_min.wrapped
        /\ ~call.num_comparable_over_max.wrapped

C25_Witness ==
    /\ call.fn = "calculate_log_score"
    /\ call.maxscore /= 0
    /\ call.ssap_score_over_compared.is_set
    /\ call.ssap_score_over_larger.is_set
    /\ ~call.ssap_score_over_smaller.is_set


\* C26: iterate returns only after at least one step; it returns exactly
\* when the last step gave the alignment the step before it was given (a
\* cycle of two, taken as the end and returned without error) or the last
\* step inserted no residues and gave back what it was given, no further
\* step being made after such a step; and what it returns is what the last
\* step gave.
StepsMade == Len(last_steps)

LastStepEndsIterate ==
    \/ /\ StepsMade = 2
       /\ last_steps[2].gave = last_steps[1].given
    \/ /\ StepsMade >= 1
       /\ ~last_steps[StepsMade].inserted_residues
       /\ last_steps[StepsMade].gave = last_steps[StepsMade].given

ReturnedAfterTheLastStep ==
    rpc = "returned" =>
        /\ StepsMade >= 1
        /\ LastStepEndsIterate
        /\ returned_alignment = last_steps[StepsMade].gave

NoStepAfterTheLastStep == (StepsMade >= 1 /\ last_steps' /= last_steps) => ~LastStepEndsIterate

C26_IterateStopsExactlyAtCycleOrFixedPoint == [](ReturnedAfterTheLastStep) /\ [][NoStepAfterTheLastStep]_vars

C26_Witness ==
    /\ rpc = "returned"
    /\ StepsMade = 2
    /\ last_steps[2].gave = last_steps[1].given
    /\ last_steps[2].gave /= last_steps[2].given
    /\ last_steps[2].inserted_residues
    /\ iter_ctr >= 2


\* C27: a clique file whose first line declares n correspondences and which
\* then holds n lines that can be read is read without error and gives a
\* clique of exactly n equivalences, each from its line; read_clique_file
\* raises a parsing error only when the first line or a declared line
\* cannot be read.
C27_WellFormedCliqueFileIsRead ==
    call.fn = "read_clique_file" =>
        /\ (call.file.opens /\ call.file.header_read /\ call.file.lines >= call.file.cliquesize) =>
              /\ call.result.threw = "none"
              /\ Len(call.result.equivs) = call.file.cliquesize
              /\ \A k \in 1..Len(call.result.equivs) : call.result.equivs[k].from_line
        /\ call.result.threw = "runtime_error_exception" =>
              (~call.file.header_read \/ call.file.lines < call.file.cliquesize)

\* The same of the files that declare no correspondence
WellFormedCliqueFileIsReadWhenEmpty ==
    (call.fn = "read_clique_file" /\ call.file.cliquesize = 0) => C27_WellFormedCliqueFileIsRead


\* C28: when align_proteins has finished from freshly reset state, whatever
\* the options and the numbers of secondary structures, the run counter is
\* 1 or 2 and is the number of SSAP stages (fast, slow) that ran, each stage
\* that ran has left its scores in the slot of its counter value, and
\* print_ssap_scores writes at least one line.
FastStageRan == \E k \in 1..Len(compare_log) : compare_log[k].doing_fast_ssap

SlowStageRan == \E k \in 1..Len(compare_log) : ~compare_log[k].doing_fast_ssap

StagesRun == (IF FastStageRan THEN 1 ELSE 0) + (IF SlowStageRan THEN 1 ELSE 0)

LineOfSlot(counter) == IF counter = 1 THEN global_ssap_line1 ELSE global_ssap_line2

C28_RunCounterCountsTheStages ==
    (pc = "aligned" /\ comparison = 1) =>
        /\ global_run_counter \in {1, 2}
        /\ global_run_counter = StagesRun
        /\ \A k \in 1..Len(compare_log) :
              compare_log[k].run_counter = (IF compare_log[k].doing_fast_ssap THEN 1 ELSE StagesRun)
        /\ \A counter \in 1..StagesRun : LineOfSlot(counter) /= EmptyLine
        /\ print_ssap_scores(global_ssap_score1, global_ssap_score2, global_ssap_line1,
                             global_ssap_line2, global_run_counter,
                             options.write_all_scores) /= << >>

\* The same of the comparisons in which a stage ran
RunCounterCountsTheStagesThatRan ==
    (pc = "aligned" /\ comparison = 1 /\ compare_log /= << >>) => C28_RunCounterCountsTheStages


\* ---- C29 ----

ScoredResidueAlignments(doing_fast_ssap) ==
    { k \in 1..Len(compare_log) :
        /\ IsResiduePass(k, 2)
        /\ compare_log[k].doing_fast_ssap = doing_fast_ssap
        /\ ~compare_log[k].dp_zero }

BothRunsScored ==
    /\ pc = "aligned" /\ comparison = 1
    /\ ScoredResidueAlignments(TRUE) /= {}
    /\ ScoredResidueAlignments(FALSE) /= {}

ChosenForWriting == { k \in 1..Len(compare_log) : compare_log[k].alignment_chosen }

\* The run whose alignment is the last one chosen for writing
RunOfWrittenAlignment ==
    IF ChosenForWriting = {} THEN "none"
    ELSE LET last_chosen == CHOOSE k \in ChosenForWriting : \A j \in ChosenForWriting : j <= k
         IN  IF compare_log[last_chosen].doing_fast_ssap THEN "fast" ELSE "slow"

\* The run whose line print_ssap_scores prints, the lines being named after
\* their runs
RunsOfPrintedLines ==
    print_ssap_scores(global_ssap_score1, global_ssap_score2, "fast", "slow",
                      global_run_counter, options.write_all_scores)

\* C29: when both fast and slow SSAP scored a residue alignment and only the
\* best line is printed, the printed line is the slow run's if and only if
\* the slow run's alignment was chosen for writing over the fast run's, equal
\* scores included
C29_ScoresAndAlignmentFromTheSameRun ==
    (BothRunsScored /\ ~options.write_all_scores) =>
        (RunsOfPrintedLines = <<"slow">> <=> RunOfWrittenAlignment = "slow")

\* The same when the two runs' scores differ and the slots hold the scores
\* plot_aln compared
ScoresAndAlignmentFromTheSameRunUnlessEqual ==
    (/\ BothRunsScored /\ ~options.write_all_scores
     /\ global_ssap_score1 = global_score_run1
     /\ global_ssap_score2 = global_score_run2
     /\ global_score_run1 /= global_score_run2) =>
        (RunsOfPrintedLines = <<"slow">> <=> RunOfWrittenAlignment = "slow")


\* ---- C30 ----

LimitOfQueriesIsSet == filter_pc = "queries" /\ arg_filter_spec.limit_queries.is_set

\* The query IDs some call did not skip
QueryIdsNotSkipped ==
    { skip_calls[k].query_id : k \in { j \in 1..Len(skip_calls) : ~skip_calls[j].should_skip } }

\* C30: with a limit L of queries set, after any sequence of
\* should_skip_query_and_update calls the record of seen query IDs holds at
\* most L IDs, it holds exactly the IDs that were not skipped, and no call
\* skipped on account of the limit an ID that was in the record already
C30_SeenQueriesWithinLimit ==
    LimitOfQueriesIsSet =>
        /\ size(arg_seen_queries) <= arg_filter_spec.limit_queries.value
        /\ arg_seen_queries = QueryIdsNotSkipped
        /\ \A k \in 1..Len(skip_calls) :
              seen_query_id(skip_calls[k].seen_before, skip_calls[k].query_id) =>
                  ~skip_calls[k].skip_by_num

\* The record is full, a new ID was skipped on account of the limit, and
\* after that an ID of the record was asked for again and not skipped
C30_Witness ==
    /\ LimitOfQueriesIsSet
    /\ arg_filter_spec.limit_queries.value > 0
    /\ size(arg_seen_queries) = arg_filter_spec.limit_queries.value
    /\ \E k1, k2 \in 1..Len(skip_calls) :
          /\ k1 < k2
          /\ skip_calls[k1].skip_by_num /\ skip_calls[k1].should_skip
          /\ seen_query_id(skip_calls[k2].seen_before, skip_calls[k2].query_id)
          /\ ~skip_calls[k2].should_skip

=============================================================================
